---- MODULE Spec2Model ----
(***************************************************************************)
(* okidoki: a document wiki.  The model covers the in-memory search index  *)
(* (be/search.go), the git-backed tree store (be/storage_git.go) and the   *)
(* HTTP handlers that drive them (main.go).                                *)
(*                                                                         *)
(* Conventions.  A document path is a sequence of node IDs (the slash-     *)
(* joined string of the code, split at "/"); <<>> is the docs root.  A     *)
(* title or a content is a sequence of words (the string of the code,      *)
(* split at single spaces).  Words, IDs and rendered paths are strings.    *)
(***************************************************************************)
EXTENDS Integers, Sequences, FiniteSets, TLC

VARIABLES
    index,      \* SearchEngine.index: stem -> (full path -> count)
    documents,  \* SearchEngine.documents: full path -> Document
    docs,       \* the working tree under data/docs: node path -> [title, content]
    repo,       \* the commits of the git repository, oldest first
    last,       \* what the last call returned
    mu,         \* SearchEngine.mu: the goroutine that holds the write lock, the readers
    calls,      \* the SearchEngine call of each goroutine and its position in it
    md,         \* the Metadata: Favorites, LastViewedDocs, changedFlag, stopChan, mu
    gor,        \* the goroutines that use the Metadata: their call and position in it
    staged,     \* the git index: the files that the last w.Add(".") has staged
    reqs        \* the requests that run at the same time: handler, position, result

vars == <<index, documents, docs, repo, last, mu, calls, md, gor, staged, reqs>>

(***************************************************************************)
(* Generic helpers.                                                        *)
(***************************************************************************)
Range(s) == {s[i] : i \in 1..Len(s)}

Restrict(f, S) == [x \in S |-> f[x]]

RECURSIVE Join(_, _)
\* strings.Join / filepath.Join of the elements of a sequence of strings
Join(parts, sep) ==
    IF parts = <<>> THEN ""
    ELSE IF Len(parts) = 1 THEN parts[1]
    ELSE parts[1] \o sep \o Join(Tail(parts), sep)

\* all sequences without repetition that enumerate the set S
Enumerations(S) ==
    {s \in [1..Cardinality(S) -> S] : \A i, j \in 1..Cardinality(S) : s[i] = s[j] => i = j}

(***************************************************************************)
(* Words.  The library functions are modelled on a small vocabulary.       *)
(***************************************************************************)
\* strings.ToLower on the vocabulary
ToLower(word) ==
    CASE word = "Hello"  -> "hello"
      [] word = "World!" -> "world!"
      [] word = "Root"   -> "root"
      [] word = "P"      -> "p"
      [] word = "D"      -> "d"
      [] word = "Worlds" -> "worlds"
      [] OTHER           -> word

\* strings.Trim(word, ".,!?\"'()[]{}") on the lowercased vocabulary
Trim(word) ==
    CASE word = "world!" -> "world"
      [] word = "!?"     -> ""
      [] OTHER           -> word

\* the languages main() configures the engine with
Languages == {"english", "russian"}

\* snowball.Stem(word, lang, false): the English stemmer strips the plural s,
\* the Russian stemmer leaves a Latin word as it is
stemmer(word, lang) ==
    IF lang = "english"
    THEN CASE word = "worlds" -> "world"
           [] OTHER           -> word
    ELSE word

\* strings.Fields(Title + " " + Content)
Fields(doc) == doc.Title \o doc.Content

normalize(word) == Trim(ToLower(word))

(***************************************************************************)
(* SearchEngine (be/search.go).  An engine value is [index, documents].    *)
(***************************************************************************)
\* filepath.Join("data", docPath)
getBasePath(docPath) == Join(<<"data">> \o docPath, "/")

\* se.index[stemmed][fullPath]++ , creating the bucket when it is nil
Increment(idx, stem, fullPath) ==
    IF stem \notin DOMAIN idx
    THEN idx @@ (stem :> (fullPath :> 1))
    ELSE IF fullPath \notin DOMAIN idx[stem]
         THEN [idx EXCEPT ![stem] = @ @@ (fullPath :> 1)]
         ELSE [idx EXCEPT ![stem][fullPath] = @ + 1]

RECURSIVE IndexWord(_, _, _, _)
\* the inner loop of IndexDocument: for lang := range se.languages
IndexWord(idx, word, fullPath, langs) ==
    IF langs = {} THEN idx
    ELSE LET lang == CHOOSE l \in langs : TRUE
             stemmed == stemmer(word, lang)
             next == IF stemmed # "" THEN Increment(idx, stemmed, fullPath) ELSE idx
         IN  IndexWord(next, word, fullPath, langs \ {lang})

RECURSIVE IndexWords(_, _, _)
\* the outer loop of IndexDocument: for _, word := range words
IndexWords(idx, words, fullPath) ==
    IF words = <<>> THEN idx
    ELSE IndexWords(IndexWord(idx, normalize(Head(words)), fullPath, Languages),
                    Tail(words), fullPath)

\* SearchEngine.IndexDocument
SE_IndexDocument(se, doc) ==
    LET fullPath == getBasePath(doc.Path)
    IN  [index     |-> IndexWords(se.index, Fields(doc), fullPath),
         documents |-> (fullPath :> doc) @@ se.documents]

\* a faulty Unlink that leaves an emptied bucket in the index
UnlinkKeepEmpty(idx, stem, fullPath) ==
    IF stem \notin DOMAIN idx THEN idx
    ELSE [idx EXCEPT ![stem] = Restrict(idx[stem], DOMAIN idx[stem] \ {fullPath})]

\* delete(index, fullPath) and, when the bucket is empty, delete(se.index, stemmed)
Unlink(idx, stem, fullPath) ==
    IF stem \notin DOMAIN idx THEN idx
    ELSE LET bucket == Restrict(idx[stem], DOMAIN idx[stem] \ {fullPath})
         IN  IF DOMAIN bucket = {}
             THEN Restrict(idx, DOMAIN idx \ {stem})
             ELSE [idx EXCEPT ![stem] = bucket]

RECURSIVE UnlinkWords(_, _, _, _)
\* the inner loop of DeleteDocument: for _, word := range words
UnlinkWords(idx, words, fullPath, lang) ==
    IF words = <<>> THEN idx
    ELSE LET stemmed == stemmer(normalize(Head(words)), lang)
             next == IF stemmed # "" THEN Unlink(idx, stemmed, fullPath) ELSE idx
         IN  UnlinkWords(next, Tail(words), fullPath, lang)

RECURSIVE UnlinkLangs(_, _, _, _)
\* the outer loop of DeleteDocument: for lang := range se.languages
UnlinkLangs(idx, words, fullPath, langs) ==
    IF langs = {} THEN idx
    ELSE LET lang == CHOOSE l \in langs : TRUE
         IN  UnlinkLangs(UnlinkWords(idx, words, fullPath, lang), words, fullPath,
                         langs \ {lang})

\* SearchEngine.DeleteDocument: the error return
SE_DeleteFails(se, docPath) == getBasePath(docPath) \notin DOMAIN se.documents

\* a faulty DeleteDocument that drops the document and leaves its index entries
SE_DeleteDocumentKeepIndex(se, docPath) ==
    LET fullPath == getBasePath(docPath)
    IN  IF SE_DeleteFails(se, docPath) THEN se
        ELSE [index     |-> se.index,
              documents |-> Restrict(se.documents, DOMAIN se.documents \ {fullPath})]

\* SearchEngine.DeleteDocument: the engine afterwards
SE_DeleteDocument(se, docPath) ==
    LET fullPath == getBasePath(docPath)
    IN  IF SE_DeleteFails(se, docPath) THEN se
        ELSE [index     |-> UnlinkLangs(se.index, Fields(se.documents[fullPath]),
                                        fullPath, Languages),
              documents |-> Restrict(se.documents, DOMAIN se.documents \ {fullPath})]

\* Go's string order (sortedResults[i].Path > sortedResults[j].Path) on the full
\* paths of the model, ascending: after the common prefix the end of the string
\* comes before "(" (0x28), which comes before "/" (0x2f)
PathsAscending ==
    << "data/hello_world", "data/hello_world(1)", "data/hello_world/p" >>

PathRank(fullPath) == CHOOSE i \in 1..Len(PathsAscending) : PathsAscending[i] = fullPath

StringGreater(a, b) == PathRank(a) > PathRank(b)

RECURSIVE Accumulate(_, _, _)
\* for docPath, count := range docs { results[docPath] += count }
Accumulate(results, bucket, paths) ==
    IF paths = {} THEN results
    ELSE LET p == CHOOSE x \in paths : TRUE
             next == IF p \in DOMAIN results
                     THEN [results EXCEPT ![p] = @ + bucket[p]]
                     ELSE results @@ (p :> bucket[p])
         IN  Accumulate(next, bucket, paths \ {p})

RECURSIVE ScoreWord(_, _, _, _)
\* the inner loop of Search: for lang := range se.languages
ScoreWord(results, idx, word, langs) ==
    IF langs = {} THEN results
    ELSE LET lang == CHOOSE l \in langs : TRUE
             stemmed == stemmer(word, lang)
             next == IF stemmed # "" /\ stemmed \in DOMAIN idx
                     THEN Accumulate(results, idx[stemmed], DOMAIN idx[stemmed])
                     ELSE results
         IN  ScoreWord(next, idx, word, langs \ {lang})

RECURSIVE ScoreWords(_, _, _)
\* the outer loop of Search: for _, word := range queryWords
ScoreWords(results, idx, queryWords) ==
    IF queryWords = <<>> THEN results
    ELSE ScoreWords(ScoreWord(results, idx, normalize(Head(queryWords)), Languages),
                    idx, Tail(queryWords))

\* the results map of Search: full path -> score
Scores(se, query) == ScoreWords(<<>>, se.index, query)

Swap(s, i, j) == [s EXCEPT ![i] = s[j], ![j] = s[i]]

\* a faulty comparison that orders by score only
ExchangeByScoreOnly(s, i, j) == s[j].Score > s[i].Score

\* the comparison of the sort in Search: whether positions i < j are exchanged
Exchange(s, i, j) ==
    IF s[j].Score = s[i].Score
    THEN StringGreater(s[i].Path, s[j].Path)
    ELSE s[j].Score > s[i].Score

RECURSIVE SortLoop(_, _, _)
\* for i := 0; i < n; i++ { for j := i + 1; j < n; j++ { ... } }
SortLoop(s, i, j) ==
    IF i > Len(s) THEN s
    ELSE IF j > Len(s) THEN SortLoop(s, i + 1, i + 2)
    ELSE SortLoop(IF Exchange(s, i, j) THEN Swap(s, i, j) ELSE s, i, j + 1)

\* sortedResults of Search; order is the iteration order of the results map
SortedResults(se, query, order) ==
    LET results == Scores(se, query)
        unsorted == [k \in 1..Len(order) |-> [Path |-> order[k], Score |-> results[order[k]]]]
    IN  SortLoop(unsorted, 1, 2)

\* the page size Search falls back to
DefaultPageSize == 10

RECURSIVE Hydrate(_, _)
\* for _, result := range paginatedResults { if doc, ok := se.documents[...] }
Hydrate(entries, docMap) ==
    IF entries = <<>> THEN <<>>
    ELSE (IF Head(entries).Path \in DOMAIN docMap
          THEN <<docMap[Head(entries).Path]>> ELSE <<>>)
         \o Hydrate(Tail(entries), docMap)

\* SearchEngine.Search: the documents of the page and the total
Search(se, query, page, pageSize, order) ==
    LET pg == IF page < 1 THEN 1 ELSE page
        ps == IF pageSize < 1 THEN DefaultPageSize ELSE pageSize
        sortedResults == SortedResults(se, query, order)
        totalResults == Len(sortedResults)
        start == (pg - 1) * ps
        end == IF start + ps > totalResults THEN totalResults ELSE start + ps
    IN  IF start >= totalResults
        THEN [docs |-> <<>>, total |-> totalResults]
        ELSE [docs  |-> Hydrate(SubSeq(sortedResults, start + 1, end), se.documents),
              total |-> totalResults]

\* SearchHandler.SearchDocuments: the response for a non-empty query
SearchDocuments(se, query, page, pageSize, order) ==
    LET pg == IF page < 1 THEN 1 ELSE page
        ps == IF pageSize < 1 THEN DefaultPageSize ELSE pageSize
        r == Search(se, query, pg, ps, order)
    IN  [Results     |-> r.docs,
         Total       |-> r.total,
         CurrentPage |-> pg,
         TotalPages  |-> (r.total \div ps) + (IF r.total % ps > 0 THEN 1 ELSE 0),
         PageSize    |-> ps]

(***************************************************************************)
(* GitStorage (be/storage_git.go).  A store value is [docs, repo]: docs     *)
(* maps the path of every node directory under data/docs to the title and  *)
(* the content of its one <title>.md file; repo is the list of commits,    *)
(* each the tree it recorded and its message.  A commit's hash is its      *)
(* position in repo.  A directory without a content file has the entry     *)
(* EmptyDir; titles of documents are never empty.                          *)
(***************************************************************************)
Dir(path) == SubSeq(path, 1, Len(path) - 1)

Base(path) == path[Len(path)]

IsPrefix(a, b) == Len(a) <= Len(b) /\ SubSeq(b, 1, Len(a)) = a

\* os.Stat of a directory under data/docs succeeds
Exists(tree, path) == path = <<>> \/ path \in DOMAIN tree

\* the child directories of a directory
ChildPaths(tree, path) == {q \in DOMAIN tree : Len(q) = Len(path) + 1 /\ IsPrefix(path, q)}

\* the nodes of the subtree rooted at path
Subtree(tree, path) == {q \in DOMAIN tree : IsPrefix(path, q)}

\* unidecode, strip [^a-zA-Z0-9_]+ and lowercase, on one word of the vocabulary
SlugWord(word) ==
    CASE word = "Hello"  -> "hello"
      [] word = "World!" -> "world"
      [] word = "Root"   -> "root"
      [] word = "P"      -> "p"
      [] word = "D"      -> "d"
      [] word = "!?"     -> ""
      [] OTHER           -> word

\* the first lines of generateID: spaces become underscores between the words
Slug(title) == Join([i \in 1..Len(title) |-> SlugWord(title[i])], "_")

\* fmt.Sprintf("%s(%d)", baseID, counter)
Suffixed(baseID, counter) == baseID \o "(" \o ToString(counter) \o ")"

\* os.Stat(filepath.Join(gs.docsDir, parentPath, id)) succeeds
StatID(tree, parentPath, id) ==
    IF id = "" THEN Exists(tree, parentPath) ELSE Exists(tree, parentPath \o <<id>>)

RECURSIVE generateIDLoop(_, _, _, _, _)
\* the loop of generateID
generateIDLoop(tree, parentPath, baseID, id, counter) ==
    IF id # "root" /\ ~StatID(tree, parentPath, id)
    THEN id
    ELSE generateIDLoop(tree, parentPath, baseID, Suffixed(baseID, counter), counter + 1)

\* a generateID whose counter starts at 2
generateIDFromTwo(tree, parentPath, title) ==
    generateIDLoop(tree, parentPath, Slug(title), Slug(title), 2)

\* GitStorage.generateID
generateID(tree, parentPath, title) ==
    generateIDLoop(tree, parentPath, Slug(title), Slug(title), 1)

\* a directory that holds no content file, as os.MkdirAll makes it
EmptyDir == [title |-> <<>>, content |-> <<>>]

\* the directory exists and holds a content file
HasFile(tree, path) == path \in DOMAIN tree /\ tree[path] # EmptyDir

\* what git records of the working tree: the files, no directory without one
Tracked(tree) == Restrict(tree, {q \in DOMAIN tree : tree[q] # EmptyDir})

\* the tree of the last commit; no file before the first commit
HeadTree(commits) == IF commits = <<>> THEN <<>> ELSE commits[Len(commits)].tree

\* a commitChanges that stages added and removed files only: a file of the
\* last commit is committed as it was
commitChangesOfNewFiles(tree, commits, message) ==
    LET head == HeadTree(commits)
        added == [q \in DOMAIN Tracked(tree) |->
                     IF q \in DOMAIN head THEN head[q] ELSE tree[q]]
    IN  IF added = head THEN commits
        ELSE Append(commits, [tree |-> added, message |-> message])

\* a commitChanges that commits a clean tree too
commitChangesAlways(tree, commits, message) ==
    Append(commits, [tree |-> Tracked(tree), message |-> message])

\* GitStorage.commitChanges: stage everything, commit unless the status is clean
commitChanges(tree, commits, message) ==
    IF Tracked(tree) = HeadTree(commits)
    THEN commits
    ELSE Append(commits, [tree |-> Tracked(tree), message |-> message])

\* the rendered path of the code
PathString(path) == Join(path, "/")

\* the rendered title of the code
TitleString(title) == Join(title, " ")

\* a hasChildren that never finds a child directory
hasChildrenNever(tree, path) == FALSE

\* GitStorage.hasChildren
hasChildren(tree, path) == ChildPaths(tree, path) # {}

\* GitStorage.getChildren: the ShortDocuments of the child directories
getChildren(tree, path) ==
    { [ID          |-> Base(q),
       Title       |-> tree[q].title,
       HasChildren |-> hasChildren(tree, q),
       Path        |-> q] : q \in ChildPaths(tree, path) }

NoDocument == [ID |-> "", Title |-> <<>>, Content |-> <<>>, Children |-> {}, Path |-> <<>>]

\* a rename that leaves the descendants of the node behind
RenameDirNodeOnly(tree, from, to) ==
    [q \in (DOMAIN tree \ {from}) \cup {to} |-> IF q = to THEN tree[from] ELSE tree[q]]

\* os.Rename of a node directory: the subtree moves to the new path
RenameDir(tree, from, to) ==
    LET moved == Subtree(tree, from)
        target(q) == to \o SubSeq(q, Len(from) + 1, Len(q))
        kept == DOMAIN tree \ (moved \cup {to})
    IN  [q \in kept \cup {target(m) : m \in moved} |->
            IF q \in kept THEN tree[q]
            ELSE tree[CHOOSE m \in moved : target(m) = q]]

\* os.Rename of the directory from to the path to fails: the new parent is missing, to
\* lies inside from or is an ancestor of it, or to is a directory that is not empty
\* (rename(2) replaces an empty directory)
RenameRefused(tree, from, to) ==
    /\ to # from
    /\ \/ to = <<>>
       \/ ~Exists(tree, Dir(to))
       \/ IsPrefix(from, to)
       \/ IsPrefix(to, from)
       \/ to \in DOMAIN tree /\ (tree[to] # EmptyDir \/ ChildPaths(tree, to) # {})

\* GitStorage.CreateDocument
GS_CreateDocument(st, parentPath, title, content) ==
    LET id == generateID(st.docs, parentPath, title)
        \* filepath.Join(gs.docsDir, parentPath, id) and path.Join(parentPath, id)
        newDocPath == IF id = "" THEN parentPath ELSE parentPath \o <<id>>
        \* os.Mkdir succeeds when the parent directory exists and the directory does not
        mkdirOK == /\ newDocPath # <<>>
                   /\ Exists(st.docs, Dir(newDocPath))
                   /\ ~Exists(st.docs, newDocPath)
        written == (newDocPath :> [title |-> title, content |-> content]) @@ st.docs
    IN  IF ~mkdirOK
        THEN [docs |-> st.docs, repo |-> st.repo, err |-> "mkdir", doc |-> NoDocument]
        ELSE [docs |-> written,
              repo |-> commitChanges(written, st.repo,
                                     "Create document: " \o PathString(newDocPath)),
              err  |-> "",
              doc  |-> [ID |-> id, Title |-> title, Content |-> content,
                        Children |-> getChildren(written, parentPath),
                        Path |-> newDocPath]]

\* GitStorage.UpdateDocument
GS_UpdateDocument(st, docPath, title, content, commit) ==
    IF ~HasFile(st.docs, docPath)
    THEN [docs |-> st.docs, repo |-> st.repo, err |-> "document not found", doc |-> NoDocument]
    ELSE
    LET retitled == [st.docs EXCEPT ![docPath].title = title]
        newID == generateID(retitled, docPath, title)
        newPath == IF title # st.docs[docPath].title THEN Dir(docPath) \o <<newID>> ELSE docPath
        renameFails == RenameRefused(retitled, docPath, newPath)
        renamed == IF newPath = docPath THEN retitled ELSE RenameDir(retitled, docPath, newPath)
        written == [renamed EXCEPT ![newPath].content = content]
        commits == IF commit
                   THEN commitChanges(written, st.repo,
                                      "Update document: " \o PathString(newPath))
                   ELSE st.repo
    IN  IF renameFails
        THEN [docs |-> retitled, repo |-> st.repo, err |-> "rename", doc |-> NoDocument]
        ELSE [docs |-> written, repo |-> commits, err |-> "",
              doc  |-> [ID |-> Base(newPath), Title |-> title, Content |-> content,
                        Children |-> getChildren(written, newPath), Path |-> newPath]]

\* GitStorage.DeleteDocument
GS_DeleteDocument(st, path) ==
    IF ~Exists(st.docs, path)
    THEN [docs |-> st.docs, repo |-> st.repo, err |-> "readdir"]
    ELSE IF hasChildren(st.docs, path)
    THEN [docs |-> st.docs, repo |-> st.repo, err |-> "cannot delete document with children"]
    ELSE LET removed == Restrict(st.docs, DOMAIN st.docs \ Subtree(st.docs, path))
         IN  [docs |-> removed,
              repo |-> commitChanges(removed, st.repo,
                                     "Delete document: " \o PathString(path)),
              err  |-> ""]

\* a MoveDocument without the check of the destination
GS_MoveDocumentOverwrite(st, sourcePath, targetPath) ==
    LET destination == targetPath \o <<Base(sourcePath)>>
        moved == RenameDir(st.docs, sourcePath, destination)
    IN  IF ~Exists(st.docs, targetPath) \/ ~Exists(st.docs, sourcePath)
        THEN [docs |-> st.docs, repo |-> st.repo, err |-> "missing"]
        ELSE [docs |-> moved,
              repo |-> commitChanges(moved, st.repo, "Move document"),
              err  |-> ""]

\* GitStorage.MoveDocument
GS_MoveDocument(st, sourcePath, targetPath) ==
    LET destination == targetPath \o <<Base(sourcePath)>>
        moved == RenameDir(st.docs, sourcePath, destination)
        failed(e) == [docs |-> st.docs, repo |-> st.repo, err |-> e]
    IN  IF ~Exists(st.docs, targetPath) THEN failed("target directory does not exist")
        ELSE IF ~Exists(st.docs, sourcePath) THEN failed("source document does not exist")
        ELSE IF Exists(st.docs, destination) THEN failed("target document already exists")
        ELSE IF IsPrefix(sourcePath, targetPath) THEN failed("rename")
        ELSE [docs |-> moved,
              repo |-> commitChanges(moved, st.repo,
                                     "Move document from " \o PathString(sourcePath)
                                        \o " to " \o PathString(targetPath)),
              err  |-> ""]

(***************************************************************************)
(* The commit history of a document.  A commit is identified by its        *)
(* position in the repository, a blob by its content.  The repository      *)
(* holds the content files docs/<path>/<title>.md of the committed trees;  *)
(* the log walks the commits from HEAD to the first one.                   *)
(***************************************************************************)
\* the name of the content file of a node inside the repository
FileName(path, title) == <<"docs">> \o path \o <<TitleString(title) \o ".md">>

\* Commit.Tree: the blobs of a committed tree by file name
TreeFiles(tree) ==
    [n \in {FileName(q, tree[q].title) : q \in DOMAIN tree} |->
        tree[CHOOSE q \in DOMAIN tree : FileName(q, tree[q].title) = n].content]

\* the tree of commit i; the first commit has no parent to compare with
CommitTree(commits, i) == IF i = 0 THEN <<>> ELSE TreeFiles(commits[i].tree)

\* the byte order of the entry names that occur
EntriesAscending ==
    << "D.md", "P.md", "d", "d(1)", "d(2)", "docs", "p", "p(1)", "p(2)" >>

EntryRank(name) == CHOOSE i \in 1..Len(EntriesAscending) : EntriesAscending[i] = name

RECURSIVE NameBefore(_, _)
\* the order in which the tree walk of DiffTree reaches two files
NameBefore(a, b) ==
    IF a = <<>> THEN b # <<>>
    ELSE IF b = <<>> THEN FALSE
    ELSE IF a[1] = b[1] THEN NameBefore(Tail(a), Tail(b))
    ELSE EntryRank(a[1]) < EntryRank(b[1])

\* one side of a change; Nil when the file is not in that tree
ChangeEntry(files, n) ==
    IF n \in DOMAIN files
    THEN [Nil |-> FALSE, Name |-> n, Hash |-> files[n]]
    ELSE [Nil |-> TRUE, Name |-> <<>>, Hash |-> <<>>]

\* object.DiffTree(a, b): the files that differ, in the order of the tree walk; a file
\* that changed its place is deleted at the old name and inserted at the new one
DiffTree(a, b) ==
    LET names == {n \in DOMAIN a \cup DOMAIN b :
                        n \notin DOMAIN a \/ n \notin DOMAIN b \/ a[n] # b[n]}
        sorted == CHOOSE s \in Enumerations(names) :
                        \A i, j \in 1..Len(s) : i < j => NameBefore(s[i], s[j])
    IN  [i \in 1..Cardinality(names) |->
            [From |-> ChangeEntry(a, sorted[i]), To |-> ChangeEntry(b, sorted[i])]]

\* Change.name of the library
ChangeName(change) == IF change.From.Nil THEN change.To.Name ELSE change.From.Name

\* the PathFilter closure of getDocumentHistory: [result, filePath after the call]
PathFilter(s, filePath, docFile) ==
    IF filePath = <<>>
    THEN [match |-> s = docFile, filePath |-> docFile]
    ELSE [match |-> <<"data">> \o s = filePath, filePath |-> filePath]

RECURSIVE hasFileChange(_, _, _, _)
\* the library asks the filter about the changes of a commit until one matches
hasFileChange(changes, k, filePath, docFile) ==
    IF k > Len(changes) THEN [found |-> FALSE, filePath |-> filePath]
    ELSE LET f == PathFilter(ChangeName(changes[k]), filePath, docFile)
         IN  IF f.match THEN [found |-> TRUE, filePath |-> f.filePath]
             ELSE hasFileChange(changes, k + 1, f.filePath, docFile)

RECURSIVE LogCommits(_, _, _, _)
\* Repository.Log with a PathFilter: the commits, from commit i down to the first, one
\* of whose changes against the parent passes the filter
LogCommits(commits, i, filePath, docFile) ==
    IF i = 0 THEN <<>>
    ELSE LET r == hasFileChange(DiffTree(CommitTree(commits, i), CommitTree(commits, i - 1)),
                                1, filePath, docFile)
         IN  (IF r.found THEN <<i>> ELSE <<>>) \o LogCommits(commits, i - 1, r.filePath, docFile)

RECURSIVE ChangeLoop(_, _, _)
\* the loop over the changes of one commit: the relevant changes, the visited blobs and
\* the position of the change whose closure is kept in nested (0: none)
ChangeLoop(changes, k, acc) ==
    IF k > Len(changes) THEN acc
    ELSE LET c == changes[k]
             hash == IF ~c.To.Nil THEN c.To.Hash ELSE c.From.Hash
             step ==
                IF ~c.From.Nil /\ c.To.Nil
                THEN IF c.From.Hash \notin acc.visited
                     THEN [relevant |-> Append(acc.relevant, c),
                           visited  |-> acc.visited \cup {c.From.Hash},
                           nested   |-> k]
                     ELSE acc
                ELSE IF ~c.From.Nil /\ ~c.To.Nil
                THEN [acc EXCEPT !.relevant = Append(acc.relevant, c)]
                ELSE IF hash \notin acc.visited
                     THEN [acc EXCEPT !.relevant = Append(acc.relevant, c),
                                      !.visited = acc.visited \cup {hash}]
                     ELSE acc
         IN  ChangeLoop(changes, k + 1, step)

\* change.From.Name when nested runs: the change of the iteration that made the closure
\* where each iteration has its own variable, the last change of the loop where the
\* loop has one variable
NestedName(changes, k, perIteration) ==
    IF perIteration THEN changes[k].From.Name ELSE changes[Len(changes)].From.Name

\* the directory of the file, relative to data/docs
Location(filePath) ==
    IF Len(filePath) >= 2 /\ SubSeq(filePath, 1, 2) = <<"data", "docs">>
    THEN SubSeq(filePath, 3, Len(filePath) - 1)
    ELSE SubSeq(filePath, 1, Len(filePath) - 1)

RECURSIVE getDocumentHistory(_, _, _, _, _)
RECURSIVE ForEachCommit(_, _, _, _, _, _, _)
\* the callback of cIter.ForEach on the commits of the log, one after the other
ForEachCommit(st, found, k, filePath, visited, history, perIteration) ==
    IF k > Len(found) THEN [history |-> history, visited |-> visited, err |-> ""]
    ELSE
    LET i == found[k]
        changes == DiffTree(CommitTree(st.repo, i - 1), CommitTree(st.repo, i))
        loop == ChangeLoop(changes, 1, [relevant |-> <<>>, visited |-> visited, nested |-> 0])
        entry == [CommitHash |-> i, Message |-> st.repo[i].message,
                  FilePath |-> Location(filePath)]
        rep == IF loop.nested = 0
               THEN [history |-> <<>>, visited |-> loop.visited, err |-> ""]
               ELSE getDocumentHistory(st, <<>>,
                                       <<"data">> \o NestedName(changes, loop.nested, perIteration),
                                       loop.visited, perIteration)
    IN  IF i = 1
        THEN ForEachCommit(st, found, k + 1, filePath, visited, history, perIteration)
        ELSE IF loop.relevant = <<>>
        THEN ForEachCommit(st, found, k + 1, filePath, loop.visited, history, perIteration)
        ELSE ForEachCommit(st, found, k + 1, filePath, rep.visited,
                           history \o <<entry>> \o rep.history, perIteration)

\* GitStorage.getDocumentHistory
getDocumentHistory(st, docPath, filePath, visited, perIteration) ==
    IF docPath # <<>> /\ ~Exists(st.docs, docPath)
    THEN [history |-> <<>>, visited |-> visited, err |-> "document not found"]
    ELSE LET docFile == IF HasFile(st.docs, docPath)
                        THEN <<"data">> \o FileName(docPath, st.docs[docPath].title)
                        ELSE <<>>
             found == LogCommits(st.repo, Len(st.repo), filePath, docFile)
         IN  ForEachCommit(st, found, 1, IF filePath = <<>> THEN docFile ELSE filePath,
                           visited, <<>>, perIteration)

\* GitStorage.GetDocumentHistory
GS_GetDocumentHistory(st, docPath, perIteration) ==
    getDocumentHistory(st, docPath, <<>>, {}, perIteration)

(***************************************************************************)
(* The status of the working tree, GetDocument and the restore of a        *)
(* historical version.                                                     *)
(***************************************************************************)
\* Worktree.Status: one entry per file that differs from the last commit.  Every
\* commit stages everything first, so the index equals the last commit.
Status(st) ==
    LET work == TreeFiles(Tracked(st.docs))
        head == TreeFiles(HeadTree(st.repo))
        changed == {n \in DOMAIN work \cup DOMAIN head :
                        n \notin DOMAIN work \/ n \notin DOMAIN head \/ work[n] # head[n]}
    IN  [n \in changed |->
            IF n \notin DOMAIN work THEN [Staging |-> "Unmodified", Worktree |-> "Deleted"]
            ELSE IF n \notin DOMAIN head THEN [Staging |-> "Untracked", Worktree |-> "Untracked"]
            ELSE [Staging |-> "Unmodified", Worktree |-> "Modified"]]

\* strings.HasPrefix(filePath, "docs/<docPath>/")
UnderDir(fileName, docPath) ==
    Len(fileName) > Len(docPath) + 1 /\ IsPrefix(<<"docs">> \o docPath, fileName)

\* a version of isUncommited that looks at the node's own file only
isUncommitedOwnFile(st, docPath) ==
    LET status == Status(st)
        relFilePath == FileName(docPath, st.docs[docPath].title)
    IN  [err |-> "", uncommited |-> relFilePath \in DOMAIN status]

\* GitStorage.isUncommited.  The test inside the loop reads the Staging of the node's
\* own entry (fileStatus), which is nil when the own file has no entry.
isUncommited(st, docPath) ==
    LET decide(status, relFilePath) ==
            LET ok == relFilePath \in DOMAIN status
                under == {n \in DOMAIN status : UnderDir(n, docPath)}
            IN  IF ok /\ (status[relFilePath].Worktree # "Unmodified"
                            \/ status[relFilePath].Staging # "Unmodified")
                THEN [err |-> "", uncommited |-> TRUE]
                ELSE IF \E n \in under : status[n].Worktree # "Unmodified"
                THEN [err |-> "", uncommited |-> TRUE]
                ELSE IF under # {} /\ ~ok
                THEN [err |-> "nil pointer dereference", uncommited |-> FALSE]
                ELSE [err |-> "", uncommited |-> FALSE]
    IN  IF ~HasFile(st.docs, docPath) THEN [err |-> "title not found", uncommited |-> FALSE]
        ELSE decide(Status(st), FileName(docPath, st.docs[docPath].title))

\* the Document of a failed call
NoFullDocument ==
    [ID |-> "", Title |-> <<>>, Content |-> <<>>, Children |-> {}, Path |-> <<>>,
     Uncommitted |-> FALSE]

\* GitStorage.GetDocument with readDocument
GS_GetDocument(st, docPath) ==
    LET read(uncommited) ==
            IF uncommited.err # "" THEN [err |-> uncommited.err, doc |-> NoFullDocument]
            ELSE [err |-> "",
                  doc |-> [ID |-> Base(docPath),
                           Title |-> st.docs[docPath].title,
                           Content |-> st.docs[docPath].content,
                           Children |-> getChildren(st.docs, docPath),
                           Path |-> docPath,
                           Uncommitted |-> uncommited.uncommited]]
    IN  IF ~Exists(st.docs, docPath) THEN [err |-> "document not found", doc |-> NoFullDocument]
        ELSE IF ~HasFile(st.docs, docPath)
        THEN [err |-> "document not found", doc |-> NoFullDocument]
        ELSE read(isUncommited(st, docPath))

\* gs.docsDir as path elements: RestoreHistoricalDocument hands the full path of the
\* node to generateID, which joins it to gs.docsDir once more
DocsDir == <<"data", "docs">>

\* os.MkdirAll: the directory and its missing ancestors, without files
MkdirAll(tree, dir) ==
    LET missing == {SubSeq(dir, 1, k) : k \in 1..Len(dir)} \ DOMAIN tree
    IN  [q \in DOMAIN tree \cup missing |-> IF q \in missing THEN EmptyDir ELSE tree[q]]

\* GitStorage.RestoreHistoricalDocument; commitID is the position of the commit
GS_RestoreHistoricalDocument(st, currentPath, originalPath, commitID) ==
    LET failed(tree, e) == [docs |-> tree, repo |-> st.repo, err |-> e, doc |-> NoFullDocument]
        \* the end of the call: GetDocument of the node after the commit
        answer(renamed, commits, restored) ==
            IF restored.err # ""
            THEN [docs |-> renamed, repo |-> commits,
                  err |-> "failed to get restored document", doc |-> NoFullDocument]
            ELSE [docs |-> renamed, repo |-> commits, err |-> "", doc |-> restored.doc]
        commit(renamed, commits, newPath) ==
            answer(renamed, commits, GS_GetDocument([docs |-> renamed, repo |-> commits], newPath))
        \* the rename of the directory when the title changed, then commitChanges
        rename(written, newPath) ==
            IF RenameRefused(written, currentPath, newPath)
            THEN failed(written, "failed to rename document directory")
            ELSE commit(IF newPath = currentPath THEN written
                        ELSE RenameDir(written, currentPath, newPath),
                        commitChanges(IF newPath = currentPath THEN written
                                      ELSE RenameDir(written, currentPath, newPath),
                                      st.repo,
                                      "Restore document " \o PathString(newPath)
                                      \o " to state from commit " \o ToString(commitID)
                                      \o " (original path: " \o PathString(originalPath) \o ")"),
                        newPath)
        retitle(written, newID) ==
            rename(written, IF newID = "" THEN Dir(currentPath) ELSE Dir(currentPath) \o <<newID>>)
        retitled(written, historicalTitle) ==
            retitle(written, generateID(written, DocsDir \o currentPath, historicalTitle))
        \* WriteFile of the historical content; with another title the rename of the
        \* current file then replaces the file just written
        write(made, currentTitle, historicalTitle, historicalContent) ==
            IF currentTitle = historicalTitle
            THEN rename([made EXCEPT ![currentPath].content = historicalContent], currentPath)
            ELSE retitled([made EXCEPT ![currentPath].title = historicalTitle], historicalTitle)
        restore(historical, current) ==
            IF Subtree(historical, originalPath) = {}
            THEN failed(st.docs, "historical document not found in commit")
            ELSE IF originalPath \notin DOMAIN historical
            THEN failed(st.docs, "no document file found in historical directory")
            ELSE IF current.err # ""
            THEN failed(st.docs, "failed to get current document")
            ELSE write(IF currentPath # originalPath /\ ~Exists(st.docs, Dir(originalPath))
                       THEN MkdirAll(st.docs, Dir(originalPath))
                       ELSE st.docs,
                       current.doc.Title,
                       historical[originalPath].title,
                       historical[originalPath].content)
    IN  IF commitID \notin 1..Len(st.repo) THEN failed(st.docs, "commit not found")
        ELSE restore(st.repo[commitID].tree, GS_GetDocument(st, currentPath))

\* a GetHistoricalDocument that reads the working tree instead of the commit
GS_GetHistoricalDocumentOfHead(st, docPath, commitID) ==
    IF commitID \notin 1..Len(st.repo) \/ docPath \notin DOMAIN st.docs
    THEN [docs |-> st.docs, repo |-> st.repo, err |-> "commit not found", doc |-> NoDocument]
    ELSE [docs |-> st.docs, repo |-> st.repo, err |-> "",
          doc |-> [ID |-> Base(docPath), Title |-> st.docs[docPath].title,
                   Content |-> st.docs[docPath].content, Children |-> {}, Path |-> docPath]]

\* GitStorage.GetHistoricalDocument; commitID is the position of the commit.  The
\* directory is found when the committed tree holds a file at or below it, the
\* document when the directory holds a content file.
GS_GetHistoricalDocument(st, docPath, commitID) ==
    LET failed(e) == [docs |-> st.docs, repo |-> st.repo, err |-> e, doc |-> NoDocument]
        read(tree) ==
            IF Subtree(tree, docPath) = {} THEN failed("document not found in this commit")
            ELSE IF docPath \notin DOMAIN tree THEN failed("no document file found in directory")
            ELSE [docs |-> st.docs, repo |-> st.repo, err |-> "",
                  doc |-> [ID |-> Base(docPath), Title |-> tree[docPath].title,
                           Content |-> tree[docPath].content, Children |-> {},
                           Path |-> docPath]]
    IN  IF commitID \notin 1..Len(st.repo) THEN failed("commit not found")
        ELSE read(st.repo[commitID].tree)

(***************************************************************************)
(* SearchEngine.LoadFromStorage (be/search.go) on a store.                 *)
(***************************************************************************)
\* the part of a Document that IndexDocument reads
Indexed(doc) == [Path |-> doc.Path, Title |-> doc.Title, Content |-> doc.Content]

RECURSIVE indexDocumentRecursive(_, _, _)
\* indexDocumentRecursive over the directories still to visit: GetDocument of the
\* directory, IndexDocument, then the children; the first error ends the whole walk
indexDocumentRecursive(se, st, walk) ==
    LET visit(got) ==
            IF got.err # ""
            THEN [index |-> se.index, documents |-> se.documents, err |-> got.err]
            ELSE indexDocumentRecursive(SE_IndexDocument(se, Indexed(got.doc)), st, Tail(walk))
    IN  IF walk = <<>> THEN [index |-> se.index, documents |-> se.documents, err |-> ""]
        ELSE visit(GS_GetDocument(st, Head(walk)))

\* SearchEngine.LoadFromStorage: GetRootDocuments (getDocuments needs the title of
\* every root directory), then the walk from each root document, parents before
\* children and the entries of a directory in the order of os.ReadDir (by name)
SE_LoadFromStorage(se, st) ==
    IF \E q \in ChildPaths(st.docs, <<>>) : ~HasFile(st.docs, q)
    THEN [index |-> se.index, documents |-> se.documents, err |-> "title not found"]
    ELSE indexDocumentRecursive(se, st,
            CHOOSE s \in Enumerations(DOMAIN st.docs) :
                \A i, j \in 1..Len(s) : i < j => NameBefore(s[i], s[j]))

(***************************************************************************)
(* DocumentHandler (main.go), for requests without a draft parameter.  A   *)
(* handler works on the store st and the engine se and answers with a      *)
(* status code and a document.                                             *)
(***************************************************************************)
\* DocumentHandler.CreateDocument: a create that fails with mkDirErr is repeated at
\* the root and answered with 202 Accepted
H_CreateDocument(st, se, parentPath, title, content) ==
    LET first == GS_CreateDocument(st, parentPath, title, content)
        second == GS_CreateDocument(st, <<>>, title, content)
        created == IF first.err = "" THEN first ELSE second
        indexed == SE_IndexDocument(se, [Path |-> created.doc.Path, Title |-> created.doc.Title,
                                         Content |-> created.doc.Content])
    IN  [docs |-> created.docs, repo |-> created.repo,
         index |-> indexed.index, documents |-> indexed.documents,
         doc |-> created.doc,
         code |-> IF created.err # "" THEN 500 ELSE IF first.err = "" THEN 200 ELSE 202]

\* the answer of a handler that leaves the engine as it is
Answer(tree, commits, se, code) ==
    [docs |-> tree, repo |-> commits, index |-> se.index, documents |-> se.documents,
     code |-> code]

\* the end of the Update, Move and Restore handlers: h.search.DeleteDocument of the
\* path of the request, then h.search.IndexDocument of the document got from the
\* store; an error of either is answered with 500
Reindex(tree, commits, se, oldPath, err, doc) ==
    IF err # "" \/ SE_DeleteFails(se, oldPath) THEN Answer(tree, commits, se, 500)
    ELSE Answer(tree, commits, SE_IndexDocument(SE_DeleteDocument(se, oldPath), Indexed(doc)), 200)

\* DocumentHandler.UpdateDocument
H_UpdateDocument(st, se, docPath, title, content, commit) ==
    LET answer(r) == Reindex(r.docs, r.repo, se, docPath, r.err, r.doc)
    IN  answer(GS_UpdateDocument(st, docPath, title, content, commit))

\* DocumentHandler.DeleteDocument
H_DeleteDocument(st, se, docPath) ==
    LET answer(r) ==
            IF r.err = "cannot delete document with children" THEN Answer(r.docs, r.repo, se, 400)
            ELSE IF r.err # "" \/ SE_DeleteFails(se, docPath) THEN Answer(r.docs, r.repo, se, 500)
            ELSE Answer(r.docs, r.repo, SE_DeleteDocument(se, docPath), 204)
    IN  answer(GS_DeleteDocument(st, docPath))

\* DocumentHandler.MoveDocument: the index entry of the source is deleted before the
\* moved document is read from the store
H_MoveDocument(st, se, sourcePath, targetPath) ==
    LET indexed(r, moved) ==
            IF SE_DeleteFails(se, sourcePath) THEN Answer(r.docs, r.repo, se, 500)
            ELSE IF moved.err # ""
            THEN Answer(r.docs, r.repo, SE_DeleteDocument(se, sourcePath), 500)
            ELSE Reindex(r.docs, r.repo, se, sourcePath, "", moved.doc)
        answer(r) ==
            IF r.err \in {"target directory does not exist", "source document does not exist",
                          "target document already exists"}
            THEN Answer(r.docs, r.repo, se, 400)
            ELSE IF r.err # "" THEN Answer(r.docs, r.repo, se, 500)
            ELSE indexed(r, GS_GetDocument([docs |-> r.docs, repo |-> r.repo],
                                           targetPath \o <<Base(sourcePath)>>))
    IN  answer(GS_MoveDocument(st, sourcePath, targetPath))

\* DocumentHandler.RestoreHistoricalDocument
H_RestoreHistoricalDocument(st, se, currentPath, originalPath, commitID) ==
    LET answer(r) == Reindex(r.docs, r.repo, se, currentPath, r.err, r.doc)
    IN  answer(GS_RestoreHistoricalDocument(st, currentPath, originalPath, commitID))

(***************************************************************************)
(* The search index on its own: any sequence of IndexDocument,             *)
(* DeleteDocument and Search calls on one engine.                          *)
(***************************************************************************)
\* the largest count an index entry may reach in the model
MaxCount == 4

SearchPaths == { <<"hello_world">>, <<"hello_world(1)">>, <<"hello_world", "p">> }

\* two root documents titled "Hello World!", a shorter version of the first, and a
\* child document
SearchDocs ==
    { [Path |-> <<"hello_world">>,      Title |-> <<"Hello", "World!">>, Content |-> <<>>],
      [Path |-> <<"hello_world">>,      Title |-> <<"Hello">>,           Content |-> <<"worlds">>],
      [Path |-> <<"hello_world(1)">>,   Title |-> <<"Hello", "World!">>, Content |-> <<>>],
      [Path |-> <<"hello_world(1)">>,   Title |-> <<"World!">>,          Content |-> <<"!?">>],
      [Path |-> <<"hello_world", "p">>, Title |-> <<"P">>,               Content |-> <<"worlds">>] }

Queries == { <<"world">>, <<"Worlds">>, <<"hello", "world">>, <<"!?">> }

Pages == 0..3

\* the arguments of the Search calls that are recorded in last
CallQueries == { <<"world">>, <<"Hello", "Worlds">> }

CallPages == {0, 2}

CallPageSizes == {0, 1}

PageSizes == 0..2

Engine == [index |-> index, documents |-> documents]

CountsWithin(idx, bound) ==
    \A s \in DOMAIN idx : \A p \in DOMAIN idx[s] : idx[s][p] <= bound

NoCall == [op |-> "none"]

InitEngine ==
    /\ index = <<>>
    /\ documents = <<>>

InitStore ==
    /\ docs = <<>>
    /\ repo = <<>>

\* the most goroutines that call the engine at the same time
MaxProcs == 2

(***************************************************************************)
(* Metadata (metadata.go): the favorites, the last viewed documents, the   *)
(* flag that marks unsaved changes and the mutex that guards them.  A      *)
(* *ShortDocument is modelled by the path (ID) it carries.                 *)
(***************************************************************************)

\* the most request goroutines that call the Metadata at the same time
MaxCallers == 2

\* the goroutine of startChangeChecker, the request goroutines, and main
Checker == 0
Callers == 1..MaxCallers
Main == MaxCallers + 1

\* the paths of the documents that requests mark and view
MetaPaths == {"p"}

\* sync.Mutex: the goroutine that holds it, NoHolder when it is unlocked
NoHolder == -1

\* LastViewedDocs is made with capacity 5 and never grows past it
ViewedCap == 5

\* loadMetadata: of a data directory without metadata file it creates the
\* file and saves the empty Metadata, and SaveOnDisk sets changedFlag; of an
\* existing file it decodes the exported fields.  stopChan is never made.
loadMetadata(exists) ==
    [Favorites |-> <<>>, LastViewedDocs |-> <<>>, changedFlag |-> ~exists,
     stopChan |-> "nil", mu |-> NoHolder]

\* a goroutine that is in no Metadata call
NoCallOfMetadata == [op |-> "none", arg |-> "", pc |-> "idle"]

\* NewMetadata with checkPeriodMin > 0 (main passes 60): the change checker
\* is started and waits in its select; main has yet to run its deferred Stop
NewMetadata ==
    [t \in {Checker} \cup Callers \cup {Main} |->
        IF t = Checker THEN [op |-> "startChangeChecker", arg |-> "", pc |-> "select"]
        ELSE IF t = Main THEN [op |-> "main", arg |-> "", pc |-> "running"]
        ELSE NoCallOfMetadata]

\* the positions of path in a list of documents
Positions(list, path) == {i \in 1..Len(list) : list[i] = path}

\* the list without its element at position k
Without(list, k) == SubSeq(list, 1, k - 1) \o SubSeq(list, k + 1, Len(list))

\* the least element of a non-empty set of positions
First(hits) == CHOOSE i \in hits : \A j \in hits : i <= j

\* AddToFavorites without the search for the path
AddToFavoritesAgain(m, path) ==
    [m EXCEPT !.changedFlag = TRUE, !.Favorites = Append(@, path)]

AddToFavorites(m, path) ==
    IF Positions(m.Favorites, path) # {} THEN m
    ELSE [m EXCEPT !.changedFlag = TRUE, !.Favorites = Append(@, path)]

IsFavorite(m, path) == Positions(m.Favorites, path) # {}

RemoveFromFavorites(m, path) ==
    LET remove(hits) == IF hits = {} THEN m.Favorites
                        ELSE Without(m.Favorites, First(hits))
    IN  [m EXCEPT !.changedFlag = TRUE,
                  !.Favorites = remove(Positions(m.Favorites, path))]

\* UpdateViewedMeta without the limit of five
UpdateViewedMetaOfAnyLength(m, viewed) ==
    [m EXCEPT !.changedFlag = TRUE, !.LastViewedDocs = Append(@, viewed)]

\* below five entries the document is appended; in a full list the first
\* entry with its ID, else the last entry, gives way and it becomes the first
UpdateViewedMeta(m, viewed) ==
    LET place(list, hits) ==
            IF Len(list) < ViewedCap THEN Append(list, viewed)
            ELSE IF hits # {} THEN <<viewed>> \o Without(list, First(hits))
            ELSE <<viewed>> \o SubSeq(list, 1, Len(list) - 1)
    IN  [m EXCEPT !.changedFlag = TRUE,
                  !.LastViewedDocs = place(@, Positions(m.LastViewedDocs, viewed))]

\* the most requests that the server handles at the same time
MaxRequests == 2

Requests == 1..MaxRequests

\* a goroutine of the server that has not got its request yet
NoRequest ==
    [op |-> "none", path |-> <<>>, title |-> <<>>, content |-> <<>>, pc |-> "idle",
     at |-> <<>>, pathChanged |-> FALSE, commit |-> 0, code |-> 0]

Procs == 1..MaxProcs

\* a goroutine that is in no call
Idle == [op |-> "none", arg |-> <<>>, pc |-> "idle", err |-> FALSE]

Init ==
    /\ InitEngine
    /\ InitStore
    /\ last = NoCall
    /\ mu = [writer |-> 0, readers |-> {}]
    /\ calls = [p \in Procs |-> Idle]
    /\ md = loadMetadata(TRUE)
    /\ gor = NewMetadata
    /\ staged = <<>>
    /\ reqs = [p \in Requests |-> NoRequest]

IndexDocument(doc) ==
    LET se == SE_IndexDocument(Engine, doc)
    IN  /\ CountsWithin(se.index, MaxCount)
        /\ index' = se.index
        /\ documents' = se.documents
        /\ last' = [op |-> "IndexDocument", path |-> doc.Path, err |-> FALSE]
        /\ UNCHANGED <<docs, repo, mu, calls, md, gor, staged, reqs>>

DeleteDocument(docPath) ==
    LET se == SE_DeleteDocument(Engine, docPath)
    IN  /\ index' = se.index
        /\ documents' = se.documents
        /\ last' = [op |-> "DeleteDocument", path |-> docPath,
                    err |-> SE_DeleteFails(Engine, docPath)]
        /\ UNCHANGED <<docs, repo, mu, calls, md, gor, staged, reqs>>

SearchCall(query, page, pageSize) ==
    \E order \in Enumerations(DOMAIN Scores(Engine, query)) :
        /\ last' = [op |-> "Search", query |-> query, page |-> page, pageSize |-> pageSize,
                    result |-> Search(Engine, query, page, pageSize, order)]
        /\ UNCHANGED <<index, documents, docs, repo, mu, calls, md, gor, staged, reqs>>

NextSearch ==
    \/ \E doc \in SearchDocs : IndexDocument(doc)
    \/ \E p \in SearchPaths : DeleteDocument(p)
    \/ \E q \in CallQueries, page \in CallPages, pageSize \in CallPageSizes :
            SearchCall(q, page, pageSize)

SpecSearch == Init /\ [][NextSearch]_vars

(***************************************************************************)
(* The engine under concurrent calls.  Each goroutine enters a call by     *)
(* taking se.mu, reads and writes the maps in steps of its own, and leaves *)
(* through the deferred unlock.  A goroutine that has to wait for the lock *)
(* is one whose Enter step is not enabled yet.                             *)
(***************************************************************************)
\* a LockKind under which DeleteDocument takes the read lock
LockKindReadDelete(op) == IF op = "IndexDocument" THEN "Lock" ELSE "RLock"

\* se.mu.Lock() in IndexDocument and DeleteDocument, se.mu.RLock() in Search
LockKind(op) == IF op = "Search" THEN "RLock" ELSE "Lock"

LockDocs ==
    { [Path |-> <<"hello_world">>,    Title |-> <<"Hello", "World!">>, Content |-> <<>>],
      [Path |-> <<"hello_world(1)">>, Title |-> <<"World!">>,          Content |-> <<"!?">>] }

\* the call starts: sync.RWMutex grants Lock when nobody holds the mutex and RLock
\* when no writer holds it
Enter(p, op, arg) ==
    /\ calls[p].pc = "idle"
    /\ IF LockKind(op) = "Lock"
       THEN /\ mu.writer = 0 /\ mu.readers = {}
            /\ mu' = [mu EXCEPT !.writer = p]
       ELSE /\ mu.writer = 0
            /\ mu' = [mu EXCEPT !.readers = @ \cup {p}]
    /\ calls' = [calls EXCEPT ![p] =
                    [op |-> op, arg |-> arg, err |-> FALSE,
                     pc |-> CASE op = "IndexDocument"  -> "documents"
                              [] op = "DeleteDocument" -> "check"
                              [] OTHER                 -> "read"]]
    /\ UNCHANGED <<index, documents, docs, repo, last, md, gor, staged, reqs>>

\* the next access of the call to the maps
Step(p) ==
    LET c == calls[p]
        fullPath == getBasePath(IF c.op = "IndexDocument" THEN c.arg.Path ELSE c.arg)
        at(pc) == [calls EXCEPT ![p].pc = pc]
    IN  \/ /\ c.op = "IndexDocument" /\ c.pc = "documents"
           /\ documents' = (fullPath :> c.arg) @@ documents
           /\ calls' = at("index")
           /\ UNCHANGED <<index, docs, repo, last, mu, md, gor, staged, reqs>>
        \/ /\ c.op = "IndexDocument" /\ c.pc = "index"
           /\ index' = IndexWords(index, Fields(c.arg), fullPath)
           /\ calls' = at("unlock")
           /\ UNCHANGED <<documents, docs, repo, last, mu, md, gor, staged, reqs>>
        \/ /\ c.op = "DeleteDocument" /\ c.pc = "check"
           /\ calls' = IF fullPath \in DOMAIN documents
                       THEN at("index")
                       ELSE [calls EXCEPT ![p].pc = "unlock", ![p].err = TRUE]
           /\ UNCHANGED <<index, documents, docs, repo, last, mu, md, gor, staged, reqs>>
        \/ /\ c.op = "DeleteDocument" /\ c.pc = "index"
           /\ index' = IF fullPath \in DOMAIN documents
                       THEN UnlinkLangs(index, Fields(documents[fullPath]), fullPath, Languages)
                       ELSE index
           /\ calls' = at("documents")
           /\ UNCHANGED <<documents, docs, repo, last, mu, md, gor, staged, reqs>>
        \/ /\ c.op = "DeleteDocument" /\ c.pc = "documents"
           /\ documents' = Restrict(documents, DOMAIN documents \ {fullPath})
           /\ calls' = at("unlock")
           /\ UNCHANGED <<index, docs, repo, last, mu, md, gor, staged, reqs>>
        \/ /\ c.op = "Search" /\ c.pc = "read"
           /\ \E order \in Enumerations(DOMAIN Scores(Engine, c.arg)) :
                last' = [op |-> "Search", query |-> c.arg, page |-> 1, pageSize |-> 0,
                         result |-> Search(Engine, c.arg, 1, 0, order)]
           /\ calls' = at("unlock")
           /\ UNCHANGED <<index, documents, docs, repo, mu, md, gor, staged, reqs>>

\* the deferred se.mu.Unlock() or se.mu.RUnlock()
Leave(p) ==
    /\ calls[p].pc = "unlock"
    /\ mu' = IF LockKind(calls[p].op) = "Lock"
             THEN [mu EXCEPT !.writer = 0]
             ELSE [mu EXCEPT !.readers = @ \ {p}]
    /\ calls' = [calls EXCEPT ![p] = Idle]
    /\ UNCHANGED <<index, documents, docs, repo, last, md, gor, staged, reqs>>

NextLock ==
    \/ \E p \in Procs, doc \in LockDocs :
            /\ getBasePath(doc.Path) \notin DOMAIN documents
            /\ Enter(p, "IndexDocument", doc)
    \/ \E p \in Procs, doc \in LockDocs : Enter(p, "DeleteDocument", doc.Path)
    \/ \E p \in Procs : Enter(p, "Search", <<"world">>)
    \/ \E p \in Procs : Step(p)
    \/ \E p \in Procs : Leave(p)

SpecLock == Init /\ [][NextLock]_vars

(***************************************************************************)
(* The tree store on its own: any sequence of CreateDocument,              *)
(* UpdateDocument, DeleteDocument and MoveDocument calls.                  *)
(***************************************************************************)
\* the most commits and the most nodes the store holds in the model
MaxCommits == 4

MaxNodes == 3

Store == [docs |-> docs, repo |-> repo]

StoreTitles == { <<"Hello", "World!">>, <<"Root">> }

\* a path no node has
Missing == <<"nope">>

CreateDocument(parentPath, title, content) ==
    LET r == GS_CreateDocument(Store, parentPath, title, content)
    IN  /\ docs' = r.docs
        /\ repo' = r.repo
        /\ staged' = HeadTree(r.repo)
        /\ last' = [op |-> "CreateDocument", path |-> r.doc.Path, err |-> r.err]
        /\ UNCHANGED <<index, documents, mu, calls, md, gor, reqs>>

UpdateDocument(docPath, title, content, commit) ==
    LET r == GS_UpdateDocument(Store, docPath, title, content, commit)
    IN  /\ docs' = r.docs
        /\ repo' = r.repo
        /\ staged' = HeadTree(r.repo)
        /\ last' = [op |-> "UpdateDocument", path |-> r.doc.Path, err |-> r.err]
        /\ UNCHANGED <<index, documents, mu, calls, md, gor, reqs>>

RemoveDocument(path) ==
    LET r == GS_DeleteDocument(Store, path)
    IN  /\ docs' = r.docs
        /\ repo' = r.repo
        /\ staged' = HeadTree(r.repo)
        /\ last' = [op |-> "RemoveDocument", path |-> path, err |-> r.err]
        /\ UNCHANGED <<index, documents, mu, calls, md, gor, reqs>>

MoveDocument(sourcePath, targetPath) ==
    LET r == GS_MoveDocument(Store, sourcePath, targetPath)
    IN  /\ docs' = r.docs
        /\ repo' = r.repo
        /\ staged' = HeadTree(r.repo)
        /\ last' = [op |-> "MoveDocument", path |-> targetPath \o <<Base(sourcePath)>>,
                    from |-> sourcePath, err |-> r.err]
        /\ UNCHANGED <<index, documents, mu, calls, md, gor, reqs>>

\* the history of a document; the build decides whether each iteration of a loop has
\* its own variable
GetDocumentHistory(docPath) ==
    \E perIteration \in BOOLEAN :
        LET r == GS_GetDocumentHistory(Store, docPath, perIteration)
        IN  /\ last' = [op |-> "GetDocumentHistory", path |-> docPath, err |-> r.err,
                        history |-> r.history, perIteration |-> perIteration]
            /\ UNCHANGED <<index, documents, docs, repo, mu, calls, md, gor, staged, reqs>>

NextStore ==
    \/ \E parentPath \in DOMAIN docs \cup {<<>>, Missing}, title \in StoreTitles :
            /\ Len(repo) < MaxCommits
            /\ Cardinality(DOMAIN docs) < MaxNodes
            /\ CreateDocument(parentPath, title, <<>>)
    \/ \E docPath \in DOMAIN docs \cup {Missing} :
            /\ Len(repo) < MaxCommits
            /\ UpdateDocument(docPath, IF docPath \in DOMAIN docs THEN docs[docPath].title ELSE <<"Root">>, <<"world">>, TRUE)
    \/ \E path \in DOMAIN docs \cup {Missing} :
            /\ Len(repo) < MaxCommits
            /\ RemoveDocument(path)
    \/ \E sourcePath \in DOMAIN docs \cup {Missing}, targetPath \in DOMAIN docs \cup {<<>>, Missing} :
            /\ Len(repo) < MaxCommits
            /\ MoveDocument(sourcePath, targetPath)

SpecStore == Init /\ [][NextStore]_vars

(***************************************************************************)
(* The life of documents with a history: documents titled D and P, each    *)
(* created once, edited with a commit, moved, and asked for their history. *)
(***************************************************************************)
\* the most commits of a repository whose history is asked for
MaxHistory == 6

HistoryTitles == { <<"D">>, <<"P">> }

HistoryContents == { <<"x">>, <<"y">> }

\* the nodes with the title
Titled(title) == {q \in DOMAIN docs : docs[q].title = title}

NextHistory ==
    \/ \E parentPath \in DOMAIN docs \cup {<<>>}, title \in HistoryTitles :
            /\ Len(repo) < MaxHistory
            /\ Titled(title) = {}
            /\ CreateDocument(parentPath, title, <<>>)
    \/ \E docPath \in DOMAIN docs, content \in HistoryContents :
            /\ Len(repo) < MaxHistory
            /\ UpdateDocument(docPath, docs[docPath].title, content, TRUE)
    \/ \E sourcePath \in DOMAIN docs, targetPath \in DOMAIN docs \cup {<<>>} :
            /\ Len(repo) < MaxHistory
            /\ MoveDocument(sourcePath, targetPath)
    \/ \E docPath \in DOMAIN docs : GetDocumentHistory(docPath)

SpecHistory == Init /\ [][NextHistory]_vars

(***************************************************************************)
(* Editing: retitling and uncommitted updates, deletes, moves and restores *)
(* of historical versions on a small tree.                                 *)
(***************************************************************************)
\* the largest number of commits of an editing history
MaxEdits == 2

EditTitles == { <<"D">>, <<"P">> }

EditContents == { <<>>, <<"x">> }

\* the paths a version is asked at: those of the commit and one that it lacks
OriginalPaths(commitID) ==
    IF commitID \in 1..Len(repo) THEN DOMAIN repo[commitID].tree \cup {Missing} ELSE {Missing}

RestoreHistoricalDocument(currentPath, originalPath, commitID) ==
    LET returns(r) ==
            /\ docs' = r.docs
            /\ repo' = r.repo
            /\ staged' = HeadTree(r.repo)
            /\ last' = [op |-> "RestoreHistoricalDocument", path |-> r.doc.Path,
                        from |-> currentPath, err |-> r.err]
    IN  /\ returns(GS_RestoreHistoricalDocument(Store, currentPath, originalPath, commitID))
        /\ UNCHANGED <<index, documents, mu, calls, md, gor, reqs>>

NextEdit ==
    \/ \E parentPath \in DOMAIN docs \cup {<<>>}, title \in EditTitles :
            CreateDocument(parentPath, title, <<>>) /\ Len(repo') <= MaxEdits
    \/ \E docPath \in DOMAIN docs, title \in EditTitles, content \in EditContents,
          commit \in BOOLEAN :
            UpdateDocument(docPath, title, content, commit) /\ Len(repo') <= MaxEdits
    \/ \E path \in DOMAIN docs : RemoveDocument(path) /\ Len(repo') <= MaxEdits
    \/ \E sourcePath \in DOMAIN docs, targetPath \in DOMAIN docs \cup {<<>>} :
            MoveDocument(sourcePath, targetPath) /\ Len(repo') <= MaxEdits
    \/ \E currentPath \in DOMAIN docs \cup {Missing}, commitID \in 0..Len(repo) :
          \E originalPath \in OriginalPaths(commitID) :
            /\ RestoreHistoricalDocument(currentPath, originalPath, commitID)
            /\ Len(repo') <= MaxEdits

SpecEdit == Init /\ [][NextEdit]_vars

(***************************************************************************)
(* The HTTP layer: requests that the handlers answer with success, on the  *)
(* store and the engine that main() builds with LoadFromStorage.           *)
(***************************************************************************)
\* the largest number of commits of a history of requests
MaxSync == 3

\* a request handled: the store and the engine as the handler leaves them
Handle(op, r) ==
    /\ docs' = r.docs
    /\ repo' = r.repo
    /\ staged' = HeadTree(r.repo)
    /\ index' = r.index
    /\ documents' = r.documents
    /\ last' = [op |-> op, code |-> r.code]
    /\ UNCHANGED <<mu, calls, md, gor, reqs>>

\* main(): a new engine filled by LoadFromStorage
Restart(se) ==
    /\ se.err = ""
    /\ index' = se.index
    /\ documents' = se.documents
    /\ last' = [op |-> "LoadFromStorage", code |-> 0]
    /\ UNCHANGED <<docs, repo, mu, calls, md, gor, staged, reqs>>

NextSync ==
    \/ \E parentPath \in DOMAIN docs \cup {<<>>, Missing}, title \in EditTitles :
            /\ Handle("CreateDocument", H_CreateDocument(Store, Engine, parentPath, title, <<>>))
            /\ last'.code < 300 /\ Len(repo') <= MaxSync
    \/ \E docPath \in DOMAIN docs, title \in EditTitles :
            /\ Handle("UpdateDocument",
                      H_UpdateDocument(Store, Engine, docPath, title, <<"x">>, TRUE))
            /\ last'.code < 300 /\ Len(repo') <= MaxSync
    \/ \E docPath \in DOMAIN docs :
            /\ Handle("DeleteDocument", H_DeleteDocument(Store, Engine, docPath))
            /\ last'.code < 300 /\ Len(repo') <= MaxSync
    \/ \E sourcePath \in DOMAIN docs, targetPath \in DOMAIN docs \cup {<<>>} :
            /\ Handle("MoveDocument", H_MoveDocument(Store, Engine, sourcePath, targetPath))
            /\ last'.code < 300 /\ Len(repo') <= MaxSync
    \/ \E currentPath \in DOMAIN docs, commitID \in 1..Len(repo) :
          \E originalPath \in DOMAIN repo[commitID].tree :
            /\ Handle("RestoreHistoricalDocument",
                      H_RestoreHistoricalDocument(Store, Engine, currentPath, originalPath,
                                                  commitID))
            /\ last'.code < 300 /\ Len(repo') <= MaxSync
    \/ Restart(SE_LoadFromStorage([index |-> <<>>, documents |-> <<>>], Store))

SpecSync == Init /\ [][NextSync]_vars

(***************************************************************************)
(* Uncommitted changes: updates that keep the title, with and without a    *)
(* commit, next to creates, deletes, moves and restores in place.          *)
(***************************************************************************)
\* the largest number of commits of a history with uncommitted changes
MaxDirty == 2

NextDirty ==
    \/ \E parentPath \in DOMAIN docs \cup {<<>>}, title \in EditTitles :
            CreateDocument(parentPath, title, <<>>) /\ Len(repo') <= MaxDirty
    \/ \E docPath \in DOMAIN docs, commit \in BOOLEAN :
            /\ UpdateDocument(docPath, docs[docPath].title, <<"x">>, commit)
            /\ Len(repo') <= MaxDirty
    \/ \E path \in DOMAIN docs : RemoveDocument(path) /\ Len(repo') <= MaxDirty
    \/ \E sourcePath \in DOMAIN docs, targetPath \in DOMAIN docs \cup {<<>>} :
            MoveDocument(sourcePath, targetPath) /\ Len(repo') <= MaxDirty
    \/ \E currentPath \in DOMAIN docs, commitID \in 1..Len(repo) :
            /\ RestoreHistoricalDocument(currentPath, currentPath, commitID)
            /\ Len(repo') <= MaxDirty

SpecDirty == Init /\ [][NextDirty]_vars



(***************************************************************************)
(* Properties of the search index.                                         *)
(***************************************************************************)
\* the count the index holds for a stem and a full path, 0 when there is none
EntryCount(idx, stem, fullPath) ==
    IF stem \in DOMAIN idx /\ fullPath \in DOMAIN idx[stem] THEN idx[stem][fullPath] ELSE 0

\* the number of (token, language) pairs of a document that stem to stem
PairCount(doc, stem) ==
    Cardinality({ pair \in (1..Len(Fields(doc))) \X Languages :
                    stemmer(normalize(Fields(doc)[pair[1]]), pair[2]) = stem })

\* the stems the vocabulary can produce
AllStems == {"hello", "world", "worlds", "p", "root"}

\* neither map of the engine mentions the path
NotIndexed(se, docPath) ==
    /\ getBasePath(docPath) \notin DOMAIN se.documents
    /\ \A s \in DOMAIN se.index : getBasePath(docPath) \notin DOMAIN se.index[s]

\* the engine holds doc for its path, with the counts of one indexing pass
IndexedOnce(se, doc) ==
    /\ getBasePath(doc.Path) \in DOMAIN se.documents
    /\ se.documents[getBasePath(doc.Path)] = doc
    /\ \A s \in AllStems \cup DOMAIN se.index :
          EntryCount(se.index, s, getBasePath(doc.Path)) = PairCount(doc, s)

\* whether some page of some order of a query returns a document of the path
Returned(se, query, docPath) ==
    \E order \in Enumerations(DOMAIN Scores(se, query)), page \in Pages, pageSize \in PageSizes :
        \E d \in Range(Search(se, query, page, pageSize, order).docs) : d.Path = docPath

\* C1: for a document D whose path the engine does not hold, IndexDocument(D)
\* followed by DeleteDocument(D.Path) succeeds and gives back the engine as it was
\* (index and documents), and no query then returns or counts D.Path.
C1_IndexThenDeleteRestores ==
    \A D \in SearchDocs :
        NotIndexed(Engine, D.Path) =>
            LET indexed == SE_IndexDocument(Engine, D)
                after == SE_DeleteDocument(indexed, D.Path)
            IN  /\ ~SE_DeleteFails(indexed, D.Path)
                /\ after = Engine
                /\ \A q \in Queries :
                      /\ getBasePath(D.Path) \notin DOMAIN Scores(after, q)
                      /\ ~Returned(after, q, D.Path)

\* a document was indexed and deleted again while other documents stay indexed
C1_Witness ==
    /\ last.op = "DeleteDocument"
    /\ ~last.err
    /\ NotIndexed(Engine, last.path)
    /\ DOMAIN documents # {}
    /\ \E D \in SearchDocs :
          /\ D.Path = last.path
          /\ \E s \in DOMAIN index : PairCount(D, s) > 0

\* C2 (as claimed): for every stored path and every stem, the count of the index
\* is the number of (token, language) pairs of the stored document that stem to
\* it, also after IndexDocument is called twice for the same document.
C2_CountsMatchStoredDocument ==
    \A fp \in DOMAIN documents :
        \A s \in AllStems \cup DOMAIN index :
            EntryCount(index, s, fp) = PairCount(documents[fp], s)

\* C3: when D is indexed once, DeleteDocument(D.Path) followed by IndexDocument(D)
\* succeeds and gives back the same engine, so any number of such cycles leaves
\* the counts and the scores as they were.
C3_DeleteThenIndexIsStable ==
    \A D \in SearchDocs :
        IndexedOnce(Engine, D) =>
            LET deleted == SE_DeleteDocument(Engine, D.Path)
                after == SE_IndexDocument(deleted, D)
            IN  /\ ~SE_DeleteFails(Engine, D.Path)
                /\ NotIndexed(deleted, D.Path)
                /\ after = Engine
                /\ \A q \in Queries : Scores(after, q) = Scores(Engine, q)

\* a document is indexed once, beside another indexed document, right after an
\* IndexDocument call
C3_Witness ==
    /\ last.op = "IndexDocument"
    /\ \E D \in SearchDocs :
          /\ D.Path = last.path
          /\ IndexedOnce(Engine, D)
          /\ PairCount(D, "world") > 0
    /\ Cardinality(DOMAIN documents) >= 2

RECURSIVE AllPages(_, _, _, _, _)
\* the documents of pages 1..n of a query, concatenated
AllPages(se, query, n, pageSize, order) ==
    IF n = 0 THEN <<>>
    ELSE AllPages(se, query, n - 1, pageSize, order)
         \o Search(se, query, n, pageSize, order).docs

\* the number of pages of total results
PageCount(total, pageSize) ==
    LET ps == IF pageSize < 1 THEN DefaultPageSize ELSE pageSize
    IN  (total \div ps) + (IF total % ps > 0 THEN 1 ELSE 0)

\* d1 comes before d2: higher score, or the same score and the smaller path
RanksBefore(se, query, d1, d2) ==
    LET sc == Scores(se, query)
        p1 == getBasePath(d1.Path)
        p2 == getBasePath(d2.Path)
    IN  \/ sc[p1] > sc[p2]
        \/ sc[p1] = sc[p2] /\ StringGreater(p2, p1)

\* C4: for every query, page size and iteration order of the results map, the
\* pages 1..n concatenated list the stored documents that match the query, each
\* once, by descending score and, among equal scores, by ascending path.
C4_PagesFollowOneTotalOrder ==
    \A q \in Queries, pageSize \in PageSizes :
        \A order \in Enumerations(DOMAIN Scores(Engine, q)) :
            LET n == PageCount(Len(order), pageSize)
                all == AllPages(Engine, q, n, pageSize, order)
            IN  /\ \A i, j \in 1..Len(all) :
                      i < j => RanksBefore(Engine, q, all[i], all[j])
                /\ Range(all) = { documents[fp] :
                                    fp \in DOMAIN Scores(Engine, q) \cap DOMAIN documents }
                /\ \A d \in Range(all) : documents[getBasePath(d.Path)] = d

\* a Search call returned three documents, the first two with the same score
C4_Witness ==
    /\ last.op = "Search"
    /\ Len(last.result.docs) = 3
    /\ LET sc == Scores(Engine, last.query)
           d == last.result.docs
       IN  /\ sc[getBasePath(d[1].Path)] = sc[getBasePath(d[2].Path)]
           /\ sc[getBasePath(d[2].Path)] > sc[getBasePath(d[3].Path)]

\* C5 (as claimed): with T the number of paths that match the query, Search
\* returns the documents of positions (page-1)*pageSize .. min(page*pageSize, T)-1
\* of the ordered list and the total T, nothing when (page-1)*pageSize >= T, and
\* the handler reports ceil(T / pageSize) pages.
C5_PageIsTheWindow ==
    \A q \in Queries, page \in Pages, pageSize \in PageSizes :
        \A order \in Enumerations(DOMAIN Scores(Engine, q)) :
            LET pg == IF page < 1 THEN 1 ELSE page
                ps == IF pageSize < 1 THEN DefaultPageSize ELSE pageSize
                T == Cardinality(DOMAIN Scores(Engine, q))
                start == (pg - 1) * ps
                end == IF pg * ps < T THEN pg * ps ELSE T
                sorted == SortedResults(Engine, q, order)
                r == Search(Engine, q, page, pageSize, order)
                h == SearchDocuments(Engine, q, page, pageSize, order)
            IN  /\ r.total = T
                /\ Len(r.docs) = (IF start >= T THEN 0 ELSE end - start)
                /\ \A k \in 1..Len(r.docs) :
                      getBasePath(r.docs[k].Path) = sorted[start + k].Path
                /\ h.Total = T
                /\ h.TotalPages * ps >= T
                /\ (h.TotalPages - 1) * ps < T \/ T = 0

(***************************************************************************)
(* Properties of the tree store.  Each one is a predicate of the current   *)
(* store: it applies the operations to it with every input of the sets     *)
(* below.                                                                  *)
(***************************************************************************)
\* the titles a document is created with: two of one slug, the slug `root`, no slug
CreateTitles == { <<"Hello", "World!">>, <<"hello", "world">>, <<"Root">>, <<"!?">> }

\* the directories that exist
Directories == DOMAIN docs \cup {<<>>}

\* no child of the parent has a title of the slug
FirstOfSlug(parentPath, slug) ==
    \A q \in ChildPaths(docs, parentPath) : Slug(docs[q].title) # slug

\* the IDs of three documents of one title created in a row under a parent
ThreeCreated(parentPath, title) ==
    LET r1 == GS_CreateDocument(Store, parentPath, title, <<>>)
        r2 == GS_CreateDocument([docs |-> r1.docs, repo |-> r1.repo], parentPath, title, <<>>)
        r3 == GS_CreateDocument([docs |-> r2.docs, repo |-> r2.repo], parentPath, title, <<>>)
    IN  << r1.doc.ID, r2.doc.ID, r3.doc.ID >>

\* C6 as stated: for every title and every parent, the first document whose title has
\* a given slug gets the ID slug, the second slug(1) and the third slug(2).
C6_FirstGetsTheSlug ==
    \A parentPath \in Directories, title \in CreateTitles :
        FirstOfSlug(parentPath, Slug(title)) =>
            ThreeCreated(parentPath, title)
                = << Slug(title), Suffixed(Slug(title), 1), Suffixed(Slug(title), 2) >>

\* C6, amended: the IDs are slug, slug(1), slug(2) for every title whose slug is
\* neither empty nor `root`; for the slug `root` and for the empty slug the first
\* document gets slug(1), the second slug(2) and the third slug(3).
C6_SlugSeries ==
    \A parentPath \in Directories, title \in CreateTitles :
        FirstOfSlug(parentPath, Slug(title)) =>
            ThreeCreated(parentPath, title)
                = IF Slug(title) \in {"", "root"}
                  THEN << Suffixed(Slug(title), 1), Suffixed(Slug(title), 2),
                          Suffixed(Slug(title), 3) >>
                  ELSE << Slug(title), Suffixed(Slug(title), 1), Suffixed(Slug(title), 2) >>

\* three documents titled "Hello World!" were created under one parent, the third last
C6_Witness ==
    /\ last.op = "CreateDocument" /\ last.err = ""
    /\ Base(last.path) = "hello_world(2)"
    /\ \A id \in {"hello_world", "hello_world(1)", "hello_world(2)"} :
            /\ Dir(last.path) \o <<id>> \in DOMAIN docs
            /\ docs[Dir(last.path) \o <<id>>].title = <<"Hello", "World!">>

\* C7: DeleteDocument of a node with a child directory returns the has-children error
\* and leaves every node, title, content and the commit history as they were; a node
\* without child directories is removed, and nothing else is.
C7_DeleteRefusedWithChildren ==
    \A path \in DOMAIN docs :
        LET r == GS_DeleteDocument(Store, path)
        IN  IF hasChildren(docs, path)
            THEN /\ r.err = "cannot delete document with children"
                 /\ r.docs = docs
                 /\ r.repo = repo
            ELSE /\ r.err = ""
                 /\ r.docs = Restrict(docs, DOMAIN docs \ {path})

\* a delete of a node with a child was refused
C7_Witness ==
    /\ last.op = "RemoveDocument"
    /\ last.err = "cannot delete document with children"
    /\ ChildPaths(docs, last.path) # {}

\* the sources and the targets of a move
MoveSources == DOMAIN docs \cup {Missing}

MoveTargets == DOMAIN docs \cup {<<>>, Missing}

\* C8: MoveDocument fails and leaves every node and the commit history unchanged when
\* the target directory does not exist, the source does not exist, or the target
\* already holds a node with the ID of the source.
C8_MoveRefused ==
    \A sourcePath \in MoveSources, targetPath \in MoveTargets :
        LET r == GS_MoveDocument(Store, sourcePath, targetPath)
        IN  (\/ ~Exists(docs, targetPath)
             \/ ~Exists(docs, sourcePath)
             \/ Exists(docs, targetPath \o <<Base(sourcePath)>>))
            => /\ r.err # ""
               /\ r.docs = docs
               /\ r.repo = repo

\* a move failed because another node with the ID of the source is in the target
C8_Witness ==
    /\ last.op = "MoveDocument"
    /\ last.err = "target document already exists"
    /\ last.from \in DOMAIN docs
    /\ last.path \in DOMAIN docs
    /\ last.path # last.from

\* the path of a node of the subtree of source after the move under target
Relocated(sourcePath, targetPath, q) ==
    targetPath \o SubSeq(q, Len(sourcePath), Len(q))

\* C9: a successful MoveDocument puts the node at target/<ID of source> with the
\* same title and content, every descendant under it at the same relative path with the
\* same title and content, nothing at the old location, and every other node as before.
C9_MoveKeepsTheSubtree ==
    \A sourcePath \in DOMAIN docs, targetPath \in Directories :
        LET r == GS_MoveDocument(Store, sourcePath, targetPath)
            sub == Subtree(docs, sourcePath)
            others == DOMAIN docs \ sub
            new(q) == Relocated(sourcePath, targetPath, q)
        IN  r.err = "" =>
                /\ new(sourcePath) = targetPath \o <<Base(sourcePath)>>
                /\ DOMAIN r.docs = others \cup {new(q) : q \in sub}
                /\ \A q \in sub : r.docs[new(q)] = docs[q] /\ Base(new(q)) = Base(q)
                /\ \A q \in others : r.docs[q] = docs[q]
                /\ Subtree(r.docs, sourcePath) = {}
                /\ Subtree(r.docs, new(sourcePath)) = {new(q) : q \in sub}

\* a node with a child was moved
C9_Witness ==
    /\ last.op = "MoveDocument" /\ last.err = ""
    /\ last.path \in DOMAIN docs
    /\ last.from \notin DOMAIN docs
    /\ ChildPaths(docs, last.path) # {}

(***************************************************************************)
(* Properties of the document history.                                     *)
(***************************************************************************)
\* every path a committed tree has held
CommittedPaths == UNION {DOMAIN repo[i].tree : i \in 1..Len(repo)}

\* the commits of the life of one document, oldest first: those with these messages
LifeCommits(old, new) ==
    LET mine == { "Create document: " \o PathString(old),
                  "Update document: " \o PathString(old),
                  "Move document from " \o PathString(old) \o " to " \o PathString(Dir(new)),
                  "Update document: " \o PathString(new) }
    IN  SelectSeq([i \in 1..Len(repo) |-> i], LAMBDA i : repo[i].message \in mine)

\* the document now at new was created at old, edited twice with a commit each time,
\* moved to another parent and edited once more with a commit
Lifecycle(old, new) ==
    /\ new \in DOMAIN docs
    /\ Base(new) = Base(old) /\ Dir(new) # Dir(old)
    /\ [k \in 1..Len(LifeCommits(old, new)) |-> repo[LifeCommits(old, new)[k]].message]
         = << "Create document: " \o PathString(old),
              "Update document: " \o PathString(old),
              "Update document: " \o PathString(old),
              "Move document from " \o PathString(old) \o " to " \o PathString(Dir(new)),
              "Update document: " \o PathString(new) >>

\* the commit hashes of a history
Hashes(history) == [k \in 1..Len(history) |-> history[k].CommitHash]

\* C10: for a document created, edited twice with a commit each, moved to another
\* parent and edited once more with a commit, GetDocumentHistory(newPath) has four
\* entries, among them the edit made at the new path and the two edits made at the old
\* path, and no commit hash twice.
C10_FourEntriesAcrossTheMove ==
    \A old \in CommittedPaths, new \in DOMAIN docs, perIteration \in BOOLEAN :
        Lifecycle(old, new) =>
            LET r == GS_GetDocumentHistory(Store, new, perIteration)
                life == LifeCommits(old, new)
            IN  /\ r.err = ""
                /\ Len(r.history) = 4
                /\ {life[2], life[3], life[5]} \subseteq Range(Hashes(r.history))
                /\ \A j, k \in 1..Len(r.history) :
                        r.history[j].CommitHash = r.history[k].CommitHash => j = k

(***************************************************************************)
(* Properties of restores and retitling updates.                           *)
(***************************************************************************)
\* C11: a successful RestoreHistoricalDocument(currentPath, originalPath, commitID)
\* returns a node whose Title and Content are those of the document stored at
\* originalPath in the commit, whether or not the historical title is the current one
C11_RestoreGivesTheHistoricalVersion ==
    \A currentPath \in DOMAIN docs, commitID \in 1..Len(repo) :
        \A originalPath \in DOMAIN repo[commitID].tree :
            LET r == GS_RestoreHistoricalDocument(Store, currentPath, originalPath, commitID)
            IN  r.err = "" =>
                    /\ r.doc.Title = repo[commitID].tree[originalPath].title
                    /\ r.doc.Content = repo[commitID].tree[originalPath].content


\* C12: an UpdateDocument with a changed title succeeds and moves the node to an ID
\* made from the new title that no sibling has: the collision-resolved slug(n) when a
\* sibling owns the plain slug; the returned Path is the node's new path
C12_RetitleGetsASiblingUniqueID ==
    \A docPath \in DOMAIN docs, title \in EditTitles :
        HasFile(docs, docPath) /\ title # docs[docPath].title =>
            LET r == GS_UpdateDocument(Store, docPath, title, <<"x">>, TRUE)
                siblings == ChildPaths(docs, Dir(docPath)) \ {docPath}
                plain == Dir(docPath) \o <<Slug(title)>>
            IN  /\ r.err = ""
                /\ Dir(r.doc.Path) = Dir(docPath)
                /\ r.doc.Path \notin siblings
                /\ plain \in siblings =>
                        \E n \in 1..Cardinality(siblings) :
                            Base(r.doc.Path) = Suffixed(Slug(title), n)
                /\ HasFile(r.docs, r.doc.Path)
                /\ r.docs[r.doc.Path].title = title

\* C13: CreateDocument under a parentPath that is no directory fails with the
\* parent-missing error and leaves the tree and the log as they are; the handler then
\* creates the document at the root and answers 202; the error is not returned when
\* the parent directory exists
C13_MissingParentFallsBackToRoot ==
    \A parentPath \in DOMAIN docs \cup {<<>>, Missing}, title \in CreateTitles :
        LET r == GS_CreateDocument(Store, parentPath, title, <<>>)
            h == H_CreateDocument(Store, Engine, parentPath, title, <<>>)
        IN  IF Exists(docs, parentPath)
            THEN r.err # "mkdir" /\ h.code = 200
            ELSE /\ r.err = "mkdir" /\ r.docs = docs /\ r.repo = repo
                 /\ h.code = 202
                 /\ Len(h.doc.Path) = 1
                 /\ HasFile(h.docs, h.doc.Path)
                 /\ h.docs[h.doc.Path].title = title

\* C14: a successful CreateDocument returns the new node: its ID, Title and Content,
\* Path = parentPath/ID, and as Children the child nodes of the new node, of which a
\* node just created has none
C14_CreateReturnsTheNewNode ==
    \A parentPath \in DOMAIN docs \cup {<<>>}, title \in EditTitles, content \in EditContents :
        LET r == GS_CreateDocument(Store, parentPath, title, content)
        IN  r.err = "" =>
                /\ r.doc.Path = parentPath \o <<r.doc.ID>>
                /\ r.doc.Title = title
                /\ r.doc.Content = content
                /\ r.doc.Children = getChildren(r.docs, r.doc.Path)
                /\ r.doc.Children = {}

\* C15: an UpdateDocument with commit = false writes the title and the content to
\* the working tree and leaves the commit log as it is, and with it the
\* GetDocumentHistory of every document
C15_UncommittedUpdateKeepsHistories ==
    \A docPath \in DOMAIN docs, title \in EditTitles, content \in EditContents :
        LET r == GS_UpdateDocument(Store, docPath, title, content, FALSE)
            after == [docs |-> r.docs, repo |-> r.repo]
            \* where the document at q is after the call
            now(q) == IF IsPrefix(docPath, q)
                      THEN r.doc.Path \o SubSeq(q, Len(docPath) + 1, Len(q))
                      ELSE q
        IN  r.err = "" =>
                /\ r.repo = repo
                /\ r.docs[r.doc.Path] = [title |-> title, content |-> content]
                /\ \A q \in DOMAIN docs, perIteration \in BOOLEAN :
                        GS_GetDocumentHistory(after, now(q), perIteration).history
                            = GS_GetDocumentHistory(Store, q, perIteration).history

(***************************************************************************)
(* Properties of uncommitted changes and of the commit log.                *)
(***************************************************************************)
\* the files below the directory of a node that differ from the last commit
ChangedBelow(st, docPath) ==
    LET work == TreeFiles(Tracked(st.docs))
        head == TreeFiles(HeadTree(st.repo))
    IN  {n \in DOMAIN work \cup DOMAIN head :
            /\ UnderDir(n, docPath)
            /\ n \notin DOMAIN work \/ n \notin DOMAIN head \/ work[n] # head[n]}

\* every node of the tree reports no uncommitted change
AllCommitted(st) ==
    \A q \in DOMAIN st.docs :
        HasFile(st.docs, q) =>
            GS_GetDocument(st, q).err = "" /\ ~GS_GetDocument(st, q).doc.Uncommitted

CommittingResults ==
    LET store(r) == [docs |-> r.docs, repo |-> r.repo, err |-> r.err]
        all == {store(GS_CreateDocument(Store, parentPath, title, <<>>)) :
                    parentPath \in DOMAIN docs \cup {<<>>}, title \in EditTitles}
               \cup {store(GS_UpdateDocument(Store, docPath, title, content, TRUE)) :
                    docPath \in DOMAIN docs, title \in EditTitles, content \in EditContents}
               \cup {store(GS_DeleteDocument(Store, path)) : path \in DOMAIN docs}
               \cup {store(GS_MoveDocument(Store, sourcePath, targetPath)) :
                    sourcePath \in DOMAIN docs, targetPath \in DOMAIN docs \cup {<<>>}}
               \cup UNION {{store(GS_RestoreHistoricalDocument(Store, currentPath,
                                                               originalPath, commitID)) :
                                currentPath \in DOMAIN docs,
                                originalPath \in DOMAIN repo[commitID].tree} :
                           commitID \in 1..Len(repo)}
    IN  {r \in all : r.err = ""}

\* C17 as stated: a successful committing mutation appends exactly one commit when it
\* changed the working tree and none when the working tree is clean; the commits
\* already in the log stay as they are
C17_OneCommitWhenChanged ==
    \A r \in CommittingResults :
        /\ SubSeq(r.repo, 1, Len(repo)) = repo
        /\ r.docs # docs => Len(r.repo) = Len(repo) + 1
        /\ Tracked(r.docs) = HeadTree(repo) => r.repo = repo

\* C17, amended: a successful committing mutation appends exactly one commit, of the
\* whole working tree, when the files of the working tree after it differ from the
\* last commit, and none when they do not; the commits already in the log stay
C17_OneCommitWhenDirty ==
    \A r \in CommittingResults :
        /\ SubSeq(r.repo, 1, Len(repo)) = repo
        /\ Tracked(r.docs) # HeadTree(repo) =>
                /\ Len(r.repo) = Len(repo) + 1
                /\ HeadTree(r.repo) = Tracked(r.docs)
        /\ Tracked(r.docs) = HeadTree(repo) => r.repo = repo

\* committing mutations have filled the log, an update without commit has then
\* changed a file, and writing the committed content back commits nothing
C17_Witness ==
    /\ Len(repo) = MaxDirty
    /\ last.op = "UpdateDocument" /\ last.err = ""
    /\ Tracked(docs) # HeadTree(repo)
    /\ \E r \in CommittingResults : r.docs # docs /\ r.repo = repo
    /\ \E r \in CommittingResults : Len(r.repo) = Len(repo) + 1

(***************************************************************************)
(* Further properties of the search index.                                 *)
(***************************************************************************)
\* every stem of the index has at least one path, each with a positive count
NoEmptyBucket(idx) ==
    \A stem \in DOMAIN idx :
        DOMAIN idx[stem] # {} /\ \A fullPath \in DOMAIN idx[stem] : idx[stem][fullPath] >= 1

\* C19: in every state reached by IndexDocument and DeleteDocument calls every stem
\* of the index maps to a non-empty set of paths, and a stem whose last path is
\* deleted by DeleteDocument is gone from the index afterwards
C19_NoStemWithoutPaths ==
    /\ NoEmptyBucket(index)
    /\ \A doc \in SearchDocs : NoEmptyBucket(SE_IndexDocument(Engine, doc).index)
    /\ \A docPath \in SearchPaths :
            LET se == SE_DeleteDocument(Engine, docPath)
                fullPath == getBasePath(docPath)
            IN  ~SE_DeleteFails(Engine, docPath) =>
                    /\ NoEmptyBucket(se.index)
                    /\ \A stem \in DOMAIN index :
                            DOMAIN index[stem] = {fullPath} => stem \notin DOMAIN se.index

\* C20: no operation of the search index returns an error: IndexDocument never does,
\* and DeleteDocument of a path that is not indexed returns none and leaves the
\* engine as it is
C20_NoErrorFromTheIndex ==
    \A docPath \in SearchPaths :
        /\ ~SE_DeleteFails(Engine, docPath)
        /\ getBasePath(docPath) \notin DOMAIN documents =>
                SE_DeleteDocument(Engine, docPath) = Engine

(***************************************************************************)
(* Properties of the engine under concurrent calls.                        *)
(***************************************************************************)
\* a goroutine is between the lock and the unlock of its call
InSection(p) == calls[p].pc # "idle"

\* C18: no IndexDocument or DeleteDocument critical section overlaps with another
\* critical section, Search sections may overlap each other, and the index and the
\* documents map are read and written only under the lock in the matching mode
C18_WritersExcludeEveryone ==
    /\ [](\A p \in Procs :
            InSection(p) =>
                IF calls[p].op \in {"IndexDocument", "DeleteDocument"}
                THEN /\ mu.writer = p /\ mu.readers = {}
                     /\ \A q \in Procs \ {p} : ~InSection(q)
                ELSE /\ p \in mu.readers /\ mu.writer = 0)
    /\ [][(index' # index \/ documents' # documents) =>
            \E p \in Procs : /\ mu.writer = p /\ mu' = mu
                             /\ InSection(p) /\ calls'[p].pc # "idle"
                             /\ \A q \in Procs \ {p} : calls'[q] = calls[q]]_vars

\* two Search calls are in their critical sections at the same time, on an index
\* that writers have filled before
C18_Witness ==
    /\ \E p, q \in Procs :
            /\ p # q
            /\ calls[p].op = "Search" /\ calls[q].op = "Search"
            /\ InSection(p) /\ InSection(q)
    /\ mu.readers # {} /\ index # <<>>

(***************************************************************************)
(* The score of a search result.                                           *)
(***************************************************************************)
RECURSIVE SumCounts(_, _, _)
\* the sum of the counts the index holds for a path over a set of stems
SumCounts(idx, stems, fullPath) ==
    IF stems = {} THEN 0
    ELSE LET stem == CHOOSE x \in stems : TRUE
         IN  EntryCount(idx, stem, fullPath) + SumCounts(idx, stems \ {stem}, fullPath)

\* the distinct non-empty stems the words of a query produce under the languages
QueryStems(query) ==
    { stemmer(normalize(query[i]), lang) : i \in 1..Len(query), lang \in Languages } \ {""}

\* C30: the score Search gives a document is the sum of the document's counts over
\* the distinct stems of the query: a stem produced by two languages for one query
\* word, or by a repeated query word, contributes its count once
C30_ScoreSumsDistinctStems ==
    \A query \in Queries \cup CallQueries \cup { <<"world", "world">> } :
        \A fullPath \in DOMAIN documents :
            LET score == IF fullPath \in DOMAIN Scores(Engine, query)
                         THEN Scores(Engine, query)[fullPath] ELSE 0
            IN  score = SumCounts(index, QueryStems(query), fullPath)

(***************************************************************************)
(* The index that LoadFromStorage builds.                                  *)
(***************************************************************************)
\* an engine that holds nothing
NewSearchEngine == [index |-> <<>>, documents |-> <<>>]

\* the engine holds exactly the nodes of the tree, each with the counts of one
\* IndexDocument of its title and content
HoldsTheTree(se, tree) ==
    /\ DOMAIN se.documents = {getBasePath(q) : q \in DOMAIN tree}
    /\ \A q \in DOMAIN tree :
            IndexedOnce(se, [Path |-> q, Title |-> tree[q].title, Content |-> tree[q].content])
    /\ \A stem \in DOMAIN se.index : DOMAIN se.index[stem] \subseteq DOMAIN se.documents

\* the stores a restore of a historical version leaves behind
Restored ==
    { [docs |-> r.docs, repo |-> r.repo] :
        r \in { GS_RestoreHistoricalDocument(Store, c[1], c[2], c[3]) :
                    c \in { x \in (DOMAIN docs) \X (UNION {DOMAIN repo[i].tree : i \in 1..Len(repo)})
                                  \X (1..Len(repo)) : x[2] \in DOMAIN repo[x[3]].tree } } }

\* C27: LoadFromStorage on an empty index returns no error and indexes every node of
\* the tree once, at every depth: the indexed paths are the node paths and each count
\* is that of one IndexDocument of the node; on every store that the operations of
\* the Tree Store reach
C27_LoadIndexesEveryNodeOnce ==
    \A st \in {Store} \cup Restored :
        LET se == SE_LoadFromStorage(NewSearchEngine, st)
        IN  se.err = "" /\ HoldsTheTree(se, st.docs)

\* the same for the stores in which every directory holds its content file
C27_LoadOfWholeNodes ==
    \A st \in {Store} \cup Restored :
        (\A q \in DOMAIN st.docs : HasFile(st.docs, q)) =>
            LET se == SE_LoadFromStorage(NewSearchEngine, st)
            IN  se.err = "" /\ HoldsTheTree(se, st.docs)

(***************************************************************************)
(* Further properties of the history of a document.                        *)
(***************************************************************************)
\* C24: on every repository reached by creates, committed and uncommitted updates,
\* moves, deletes and restores, and for every document, GetDocumentHistory returns no
\* commit hash more than once, the nested walks of older lineage segments included
C24_NoCommitHashTwice ==
    \A docPath \in DOMAIN docs, perIteration \in BOOLEAN :
        LET hashes == Hashes(GS_GetDocumentHistory(Store, docPath, perIteration).history)
        IN  \A i, j \in 1..Len(hashes) : i # j => hashes[i] # hashes[j]

RECURSIVE SegmentsOf(_, _, _, _, _)
RECURSIVE SegmentWalk(_, _, _, _, _, _)
\* the walk of ForEachCommit with the entries of the walk itself (own) kept apart from
\* the histories that its nested walks return (older); sorted tells whether every
\* segment lists its commits newest first
SegmentWalk(st, found, k, filePath, acc, perIteration) ==
    IF k > Len(found) THEN acc
    ELSE
    LET i == found[k]
        changes == DiffTree(CommitTree(st.repo, i - 1), CommitTree(st.repo, i))
        loop == ChangeLoop(changes, 1, [relevant |-> <<>>, visited |-> acc.visited, nested |-> 0])
        entry == [CommitHash |-> i, Message |-> st.repo[i].message,
                  FilePath |-> Location(filePath)]
        next(rep) ==
            [own |-> Append(acc.own, entry), older |-> acc.older \o rep.history,
             visited |-> rep.visited, sorted |-> acc.sorted /\ rep.sorted]
    IN  IF i = 1 THEN SegmentWalk(st, found, k + 1, filePath, acc, perIteration)
        ELSE IF loop.relevant = <<>>
        THEN SegmentWalk(st, found, k + 1, filePath,
                         [acc EXCEPT !.visited = loop.visited], perIteration)
        ELSE SegmentWalk(st, found, k + 1, filePath,
                         next(IF loop.nested = 0
                              THEN [history |-> <<>>, visited |-> loop.visited, sorted |-> TRUE]
                              ELSE SegmentsOf(st, <<>>,
                                       <<"data">> \o NestedName(changes, loop.nested, perIteration),
                                       loop.visited, perIteration)),
                         perIteration)

\* the history of getDocumentHistory with each older segment after the whole segment
\* that discovered it
SegmentsOf(st, docPath, filePath, visited, perIteration) ==
    LET docFile == IF HasFile(st.docs, docPath)
                   THEN <<"data">> \o FileName(docPath, st.docs[docPath].title)
                   ELSE <<>>
        joined(walk) ==
            [history |-> walk.own \o walk.older, visited |-> walk.visited,
             sorted |-> /\ walk.sorted
                        /\ \A a, b \in 1..Len(walk.own) :
                                a < b => walk.own[a].CommitHash > walk.own[b].CommitHash]
    IN  IF docPath # <<>> /\ ~Exists(st.docs, docPath)
        THEN [history |-> <<>>, visited |-> visited, sorted |-> TRUE]
        ELSE joined(SegmentWalk(st, LogCommits(st.repo, Len(st.repo), filePath, docFile), 1,
                                IF filePath = <<>> THEN docFile ELSE filePath,
                                [own |-> <<>>, older |-> <<>>, visited |-> visited,
                                 sorted |-> TRUE],
                                perIteration))

\* C25: GetDocumentHistory lists the entries of each lineage segment newest first, and
\* the entries of an older segment that a commit of a newer segment discovered come
\* after all entries of that newer segment
C25_OlderSegmentsFollowTheNewer ==
    \A docPath \in DOMAIN docs, perIteration \in BOOLEAN :
        LET segments == SegmentsOf(Store, docPath, <<>>, {}, perIteration)
        IN  /\ segments.sorted
            /\ GS_GetDocumentHistory(Store, docPath, perIteration).history = segments.history

\* the part of C25 about the order within a segment
C25_SegmentsNewestFirst ==
    \A docPath \in DOMAIN docs, perIteration \in BOOLEAN :
        SegmentsOf(Store, docPath, <<>>, {}, perIteration).sorted

(***************************************************************************)
(* The read of a historical version.                                       *)
(***************************************************************************)
\* C26: GetHistoricalDocument(path, commitID) returns the title and the content that
\* the node at path had in the commit, with no children, and changes neither the
\* working tree nor the commit log; when commitID names no commit or the path is not
\* in the tree of the commit it returns an error and no document
C26_HistoricalVersionIsRead ==
    \A commitID \in 0..(Len(repo) + 1) :
        \A docPath \in CommittedPaths \cup DOMAIN docs \cup {Missing, <<>>} :
            LET r == GS_GetHistoricalDocument(Store, docPath, commitID)
            IN  /\ r.docs = docs /\ r.repo = repo
                /\ IF commitID \in 1..Len(repo) /\ docPath \in DOMAIN repo[commitID].tree
                   THEN /\ r.err = ""
                        /\ r.doc.Path = docPath
                        /\ r.doc.Title = repo[commitID].tree[docPath].title
                        /\ r.doc.Content = repo[commitID].tree[docPath].content
                        /\ r.doc.Children = {}
                   ELSE r.err # "" /\ r.doc = NoDocument

\* a version is read whose content differs from the content the node at the path has
\* now
C26_Witness ==
    \E commitID \in 1..Len(repo) : \E docPath \in DOMAIN docs :
        LET r == GS_GetHistoricalDocument(Store, docPath, commitID)
        IN  /\ r.err = ""
            /\ r.doc.Content # docs[docPath].content
            /\ r.doc.Content = repo[commitID].tree[docPath].content

(***************************************************************************)
(* The ID of a node whose restored title differs from its title.           *)
(***************************************************************************)
\* C29: when the restored title differs from the current title, the restore succeeds
\* and the node gets the ID that CreateDocument would generate for the restored title
\* under the node's parent: the slug, or slug(n) when a sibling already has the slug
C29_RestoredTitleGetsASiblingUniqueID ==
    \A currentPath \in DOMAIN docs, commitID \in 1..Len(repo) :
        \A originalPath \in DOMAIN repo[commitID].tree :
            LET r == GS_RestoreHistoricalDocument(Store, currentPath, originalPath, commitID)
                historicalTitle == repo[commitID].tree[originalPath].title
            IN  (HasFile(docs, currentPath) /\ docs[currentPath].title # historicalTitle) =>
                    /\ r.err = ""
                    /\ Dir(r.doc.Path) = Dir(currentPath)
                    /\ r.doc.ID = generateID(docs, Dir(currentPath), historicalTitle)

\* the same for the restores that find no sibling with the slug of the restored title
C29_RestoredTitleWithoutCollision ==
    \A currentPath \in DOMAIN docs, commitID \in 1..Len(repo) :
        \A originalPath \in DOMAIN repo[commitID].tree :
            LET r == GS_RestoreHistoricalDocument(Store, currentPath, originalPath, commitID)
                historicalTitle == repo[commitID].tree[originalPath].title
            IN  (/\ HasFile(docs, currentPath) /\ docs[currentPath].title # historicalTitle
                 /\ generateID(docs, Dir(currentPath), historicalTitle) = Slug(historicalTitle)) =>
                    /\ r.err = ""
                    /\ Dir(r.doc.Path) = Dir(currentPath)
                    /\ r.doc.ID = Slug(historicalTitle)

(***************************************************************************)
(* The IDs of the nodes.                                                   *)
(***************************************************************************)
\* the largest collision suffix looked for
MaxSuffix == 4

\* C22: after any sequence of CreateDocument, UpdateDocument, MoveDocument,
\* DeleteDocument and RestoreHistoricalDocument calls, failed calls included, the ID of
\* every node is the slug of its current title, optionally followed by a collision
\* suffix (n), and no two children of one parent have the same ID
C22_IDIsTheSlugOfTheTitle ==
    /\ \A q \in DOMAIN docs :
            HasFile(docs, q) =>
                \/ Base(q) = Slug(docs[q].title)
                \/ \E n \in 1..MaxSuffix : Base(q) = Suffixed(Slug(docs[q].title), n)
    /\ \A q \in DOMAIN docs \cup {<<>>} :
            \A a, b \in getChildren(docs, q) : a.ID = b.ID => a = b

(***************************************************************************)
(* The search index next to the tree.                                      *)
(***************************************************************************)
\* C21: with the index built by LoadFromStorage, after any sequence of create, update,
\* delete, move and restore requests that the HTTP layer answers with success, the
\* paths the search index holds are the paths of the nodes of the tree, descendants of
\* moved and renamed nodes included, and each indexed document has the title and the
\* content of its node
C21_IndexFollowsTheTree ==
    /\ DOMAIN documents = {getBasePath(q) : q \in DOMAIN docs}
    /\ \A stem \in DOMAIN index : DOMAIN index[stem] \subseteq DOMAIN documents
    /\ \A q \in DOMAIN docs :
            /\ getBasePath(q) \in DOMAIN documents
            /\ documents[getBasePath(q)].Title = docs[q].title
            /\ documents[getBasePath(q)].Content = docs[q].content


(***************************************************************************)
(* The goroutines of the Metadata: the change checker that NewMetadata     *)
(* starts, request goroutines that call the methods, and main, which runs  *)
(* Stop when it returns.  A goroutine takes one step per access to the     *)
(* mutex; sync.Mutex is not reentrant, so Lock waits until nobody holds    *)
(* the mutex, also when the caller itself does.                            *)
(***************************************************************************)

\* the methods that requests call, each with the path of a document
MetaOps == {"AddToFavorites", "RemoveFromFavorites", "IsFavorite", "GetFavorites",
            "UpdateViewedMeta", "GetLastViewedDocuments", "SaveOnDisk"}

\* the cases of the checker's select that can proceed: the ticker fires
\* again and again; a receive from a nil channel blocks forever, one from a
\* closed channel proceeds
Ready(m) == {"tick"} \cup (IF m.stopChan = "closed" THEN {"stop"} ELSE {})

\* the body of a method, run with the mutex held
Body(m, op, arg) ==
    CASE op = "AddToFavorites" -> AddToFavorites(m, arg)
      [] op = "RemoveFromFavorites" -> RemoveFromFavorites(m, arg)
      [] op = "UpdateViewedMeta" -> UpdateViewedMeta(m, arg)
      [] OTHER -> m

\* a request goroutine enters a method; SaveOnDisk starts at its own Lock
MetaCall(t, op, arg) ==
    /\ gor[t].pc = "idle"
    /\ gor' = [gor EXCEPT ![t] = [op |-> op, arg |-> arg,
                                  pc |-> IF op = "SaveOnDisk" THEN "save" ELSE "lock"]]
    /\ UNCHANGED <<index, documents, docs, repo, last, mu, calls, md, staged, reqs>>

\* startChangeChecker: the select takes one of the cases that can proceed
Select ==
    /\ gor[Checker].pc = "select"
    /\ \E c \in Ready(md) :
           gor' = [gor EXCEPT ![Checker].pc = IF c = "tick" THEN "lock" ELSE "exited"]
    /\ UNCHANGED <<index, documents, docs, repo, last, mu, calls, md, staged, reqs>>

\* m.mu.Lock() at the start of a method, of the checker's tick ("lock") and
\* of SaveOnDisk ("save")
MetaLock(t) ==
    /\ gor[t].pc \in {"lock", "save"}
    /\ md.mu = NoHolder
    /\ md' = [md EXCEPT !.mu = t]
    /\ gor' = [gor EXCEPT ![t].pc = IF @ = "save" THEN "encode" ELSE "body"]
    /\ UNCHANGED <<index, documents, docs, repo, last, mu, calls, staged, reqs>>

\* with the mutex held: a method runs its body; the checker calls SaveOnDisk
\* when changedFlag is set
MetaBody(t) ==
    /\ gor[t].pc = "body"
    /\ md' = IF t = Checker THEN md ELSE Body(md, gor[t].op, gor[t].arg)
    /\ gor' = [gor EXCEPT ![t].pc = IF t = Checker /\ md.changedFlag THEN "save"
                                    ELSE "unlock"]
    /\ UNCHANGED <<index, documents, docs, repo, last, mu, calls, staged, reqs>>

\* SaveOnDisk behind its Lock: the file is opened and the Metadata encoded,
\* either of which can fail; on success changedFlag is set; the deferred
\* Unlock runs; back in the checker a save without error clears changedFlag
\* and the tick goes on to its own Unlock
SaveOnDisk(t) ==
    /\ gor[t].pc = "encode"
    /\ \E saved \in BOOLEAN :
           md' = [md EXCEPT !.mu = NoHolder,
                            !.changedFlag = IF saved THEN (t # Checker) ELSE @]
    /\ gor' = [gor EXCEPT ![t] = IF t = Checker THEN [@ EXCEPT !.pc = "unlock"]
                                 ELSE NoCallOfMetadata]
    /\ UNCHANGED <<index, documents, docs, repo, last, mu, calls, staged, reqs>>

\* m.mu.Unlock() at the end of a method (deferred) and of the checker's tick
MetaUnlock(t) ==
    /\ gor[t].pc = "unlock"
    /\ md' = [md EXCEPT !.mu = NoHolder]
    /\ gor' = [gor EXCEPT ![t] = IF t = Checker THEN [@ EXCEPT !.pc = "select"]
                                 ELSE NoCallOfMetadata]
    /\ UNCHANGED <<index, documents, docs, repo, last, mu, calls, staged, reqs>>

\* Metadata.Stop, deferred by main: closes stopChan if there is one
Stop ==
    /\ gor[Main].pc = "running"
    /\ md' = [md EXCEPT !.stopChan = IF @ = "nil" THEN "nil" ELSE "closed"]
    /\ gor' = [gor EXCEPT ![Main].pc = "stopped"]
    /\ UNCHANGED <<index, documents, docs, repo, last, mu, calls, staged, reqs>>

Goroutines == {Checker} \cup Callers

\* a server whose data directory held a metadata file or not
InitMeta ==
    /\ InitEngine
    /\ InitStore
    /\ last = NoCall
    /\ mu = [writer |-> 0, readers |-> {}]
    /\ calls = [p \in Procs |-> Idle]
    /\ \E exists \in BOOLEAN : md = loadMetadata(exists)
    /\ gor = NewMetadata
    /\ staged = <<>>
    /\ reqs = [p \in Requests |-> NoRequest]

NextMeta ==
    \/ \E t \in Callers, op \in MetaOps, arg \in MetaPaths : MetaCall(t, op, arg)
    \/ Select
    \/ \E t \in Goroutines : MetaLock(t)
    \/ \E t \in Goroutines : MetaBody(t)
    \/ \E t \in Goroutines : SaveOnDisk(t)
    \/ \E t \in Goroutines : MetaUnlock(t)
    \/ Stop

SpecMeta == InitMeta /\ [][NextMeta]_vars

\* the Go scheduler runs every goroutine that can proceed, the ticker keeps
\* firing, and sync.Mutex hands the mutex to every waiter in turn
\* (starvation mode); requests and the return of main are not forced
FairMeta ==
    /\ SpecMeta
    /\ WF_vars(Select)
    /\ \A t \in Goroutines :
           /\ SF_vars(MetaLock(t))
           /\ WF_vars(MetaBody(t))
           /\ WF_vars(SaveOnDisk(t))
           /\ WF_vars(MetaUnlock(t))


\* C23: once main has called Metadata.Stop on the Metadata that NewMetadata
\* made with a check period, the change checker receives the stop signal and
\* ends (and so makes no further periodic save).
C23_StopEndsTheChangeChecker ==
    (gor[Main].pc = "stopped") ~> (gor[Checker].pc = "exited")

\* the calls that requests make while the checker runs
GuardedCalls == MetaOps \ {"SaveOnDisk"}

\* C28: the change checker gives the metadata mutex back after every tick,
\* also after one on which changedFlag was set, and every call of
\* AddToFavorites, RemoveFromFavorites, IsFavorite, GetFavorites,
\* UpdateViewedMeta and GetLastViewedDocuments comes to its end.
C28_CheckerGivesTheMutexBack ==
    /\ (md.mu = Checker) ~> (md.mu # Checker)
    /\ \A t \in Callers :
           (gor[t].op \in GuardedCalls) ~> (gor[t].pc = "idle")


\* C36: in every state reached by IndexDocument and DeleteDocument calls, every
\* path that an index bucket refers to has an entry in the documents map, and
\* the total that Search returns is the number of documents on all pages of
\* the query together.
C36_IndexedPathsAreStored ==
    /\ \A stem \in DOMAIN index : DOMAIN index[stem] \subseteq DOMAIN documents
    /\ \A q \in Queries, pageSize \in PageSizes :
           \A order \in Enumerations(DOMAIN Scores(Engine, q)) :
               LET total == Search(Engine, q, 1, pageSize, order).total
               IN  Len(AllPages(Engine, q, PageCount(total, pageSize), pageSize, order)) = total


\* C35: an UpdateDocument that returns an error leaves the node as it was: the
\* directory with its ID, the title of its content file and its content, and
\* with them the whole working tree and the commits, also when the error comes
\* from the rename of the directory.
C35_FailedUpdateChangesNothing ==
    \A docPath \in DOMAIN docs \cup {Missing}, title \in EditTitles,
       content \in EditContents, commit \in BOOLEAN :
        LET failed(r) == r.err # "" => r.docs = docs /\ r.repo = repo
        IN  failed(GS_UpdateDocument(Store, docPath, title, content, commit))


(***************************************************************************)
(* Pending changes and the commits of other documents.                     *)
(***************************************************************************)
\* neither path is the other or lies below it
Unrelated(p, q) == ~IsPrefix(p, q) /\ ~IsPrefix(q, p)

\* the commit messages that name a path
Naming(q) ==
    { "Create document: " \o PathString(q), "Update document: " \o PathString(q),
      "Delete document: " \o PathString(q), "Restore document " \o PathString(q) }
    \cup { "Move document from " \o PathString(q) \o " to " \o PathString(t) :
                t \in DOMAIN docs \cup {<<>>} }
    \cup { "Move document from " \o PathString(s) \o " to " \o PathString(q) :
                s \in DOMAIN docs }

\* the successful committing calls on documents unrelated to q, on the store st
CommitsElsewhere(st, q) ==
    LET ok(rs) == {r \in rs : r.err = ""}
    IN  ok({ GS_CreateDocument(st, parentPath, title, <<>>) :
                parentPath \in {p \in DOMAIN st.docs : Unrelated(p, q)} \cup {<<>>},
                title \in EditTitles })
        \cup ok({ GS_UpdateDocument(st, p, st.docs[p].title, content, TRUE) :
                p \in {p \in DOMAIN st.docs : Unrelated(p, q)}, content \in EditContents })
        \cup ok({ GS_DeleteDocument(st, p) : p \in {p \in DOMAIN st.docs : Unrelated(p, q)} })
        \cup ok({ GS_MoveDocument(st, pair[1], pair[2]) :
                pair \in {p \in DOMAIN st.docs : Unrelated(p, q)}
                         \X ({p \in DOMAIN st.docs : Unrelated(p, q)} \cup {<<>>}) })

\* the changes that UpdateDocument(docPath, title, content, false) has left
\* pending at the node q are in the commit of every call of CommitsElsewhere
PendingGoesAlong(pending, q) ==
    \A r \in CommitsElsewhere(pending, q) :
        /\ Len(r.repo) = Len(pending.repo) + 1
        /\ SubSeq(r.repo, 1, Len(pending.repo)) = pending.repo
        /\ q \in DOMAIN HeadTree(r.repo)
        /\ HeadTree(r.repo)[q] = pending.docs[q]
        /\ r.docs[q] = pending.docs[q]
        /\ GS_GetDocument([docs |-> r.docs, repo |-> r.repo], q).err = ""
        /\ ~GS_GetDocument([docs |-> r.docs, repo |-> r.repo], q).doc.Uncommitted
        /\ r.repo[Len(r.repo)].message \notin Naming(q)

\* C33: the changes that UpdateDocument(D, commit = false) has written are part
\* of the next commit that any committing call makes, also one on an unrelated
\* document, since the commit takes the whole working tree; GetDocument(D)
\* then reports no uncommitted change, and the message of the commit does not
\* name D.
C33_PendingChangesJoinTheNextCommit ==
    \A docPath \in DOMAIN docs, title \in EditTitles, content \in EditContents :
        LET goes(r) ==
                (/\ r.err = ""
                 /\ r.doc.Path \notin DOMAIN HeadTree(repo)
                        \/ HeadTree(repo)[r.doc.Path] # r.docs[r.doc.Path])
                => PendingGoesAlong([docs |-> r.docs, repo |-> r.repo], r.doc.Path)
        IN  goes(GS_UpdateDocument(Store, docPath, title, content, FALSE))

\* an update without commit has left a change pending, another document
\* exists, and a committing call on it succeeds
C33_Witness ==
    /\ last.op = "UpdateDocument" /\ last.err = ""
    /\ Tracked(docs) # HeadTree(repo)
    /\ \E q \in DOMAIN docs :
            /\ q \in DOMAIN HeadTree(repo)
            /\ HeadTree(repo)[q] # docs[q]
            /\ \E r \in CommitsElsewhere(Store, q) :
                    r.repo[Len(r.repo)].message \in { "Update document: " \o PathString(p) :
                                                        p \in DOMAIN docs \ {q} }


(***************************************************************************)
(* Requests that run at the same time.  net/http serves every request on   *)
(* its own goroutine and neither the handlers nor GitStorage take a lock,  *)
(* so the file system and git calls of two requests interleave; only the   *)
(* calls of the SearchEngine exclude each other.  A request takes one step *)
(* per call that reads or writes the shared state: generateID, os.Mkdir,   *)
(* os.WriteFile, w.Add, w.Status, w.Commit, search.DeleteDocument and      *)
(* search.IndexDocument.                                                   *)
(***************************************************************************)

\* a request as it is received: a create under parentPath or a committing
\* update of docPath with the title the document has
Received(op, path, title, content) ==
    [op |-> op, path |-> path, title |-> title, content |-> content,
     pc |-> IF op = "CreateDocument" THEN "generateID" ELSE "stat",
     at |-> path, pathChanged |-> FALSE, commit |-> 0, code |-> 0]

\* the request is answered
Answered(r, code) == [r EXCEPT !.pc = "done", !.code = code]

\* the message of the commit of a request
Message(r) ==
    (IF r.op = "CreateDocument" THEN "Create document: " ELSE "Update document: ")
    \o PathString(r.at)

\* where a request goes on after commitChanges has returned nil
Committed(r) == IF r.op = "CreateDocument" THEN "index" ELSE "delete"

Receive(p, op, path, title, content) ==
    /\ reqs[p].pc = "idle"
    /\ reqs' = [reqs EXCEPT ![p] = Received(op, path, title, content)]
    /\ UNCHANGED <<index, documents, docs, repo, last, mu, calls, md, gor, staged>>

\* CreateDocument: gs.generateID(parentPath, title); after mkDirErr the handler
\* calls CreateDocument again with the parent ""
GenerateID(p) ==
    LET r == reqs[p]
        parentPath == IF r.pathChanged THEN <<>> ELSE r.path
        id == generateID(docs, parentPath, r.title)
    IN  /\ r.pc = "generateID"
        /\ reqs' = [reqs EXCEPT ![p].at = IF id = "" THEN parentPath ELSE parentPath \o <<id>>,
                                ![p].pc = "mkdir"]
        /\ UNCHANGED <<index, documents, docs, repo, last, mu, calls, md, gor, staged>>

\* CreateDocument: os.Mkdir(fullPath); it fails when the parent is missing or
\* the directory exists, the handler then tries once at the root, and answers
\* 500 when that fails too (and indexes the empty Document it got)
Mkdir(p) ==
    LET r == reqs[p]
        mkdirOK == /\ r.at # <<>>
                   /\ Exists(docs, Dir(r.at))
                   /\ ~Exists(docs, r.at)
    IN  /\ r.pc = "mkdir"
        /\ docs' = IF mkdirOK THEN (r.at :> EmptyDir) @@ docs ELSE docs
        /\ reqs' = [reqs EXCEPT ![p] =
                        IF mkdirOK THEN [r EXCEPT !.pc = "write"]
                        ELSE IF ~r.pathChanged
                        THEN [r EXCEPT !.pc = "generateID", !.pathChanged = TRUE]
                        ELSE [r EXCEPT !.pc = "index", !.code = 500, !.at = <<>>,
                                       !.title = <<>>, !.content = <<>>]]
        /\ UNCHANGED <<index, documents, repo, last, mu, calls, md, gor, staged>>

\* UpdateDocument: os.Stat and GetDocument of the node
Stat(p) ==
    LET r == reqs[p]
    IN  /\ r.pc = "stat"
        /\ reqs' = [reqs EXCEPT ![p] = IF HasFile(docs, r.path) THEN [r EXCEPT !.pc = "write"]
                                       ELSE Answered(r, 500)]
        /\ UNCHANGED <<index, documents, docs, repo, last, mu, calls, md, gor, staged>>

\* os.WriteFile of the content file; it fails when the directory is gone
WriteFile(p) ==
    LET r == reqs[p]
    IN  /\ r.pc = "write"
        /\ docs' = IF r.at \in DOMAIN docs
                   THEN [docs EXCEPT ![r.at] = [title |-> r.title, content |-> r.content]]
                   ELSE docs
        /\ reqs' = [reqs EXCEPT ![p] = IF r.at \in DOMAIN docs THEN [r EXCEPT !.pc = "add"]
                                       ELSE Answered(r, 500)]
        /\ UNCHANGED <<index, documents, repo, last, mu, calls, md, gor, staged>>

\* commitChanges: w.Add(".") stages every file of the working tree
Add(p) ==
    /\ reqs[p].pc = "add"
    /\ staged' = Tracked(docs)
    /\ reqs' = [reqs EXCEPT ![p].pc = "status"]
    /\ UNCHANGED <<index, documents, docs, repo, last, mu, calls, md, gor>>

\* a Status that compares the working tree with the index only
IsCleanOfWorktree(tree, idx, commits) == Tracked(tree) = idx

\* Status.IsClean(): no file differs between the last commit and the index
\* (staging) or between the index and the working tree
IsClean(tree, idx, commits) == idx = HeadTree(commits) /\ Tracked(tree) = idx

\* commitChanges: w.Status(); when it is clean commitChanges returns nil
WorktreeStatus(p) ==
    LET r == reqs[p]
        clean == IsClean(docs, staged, repo)
    IN  /\ r.pc = "status"
        /\ reqs' = [reqs EXCEPT ![p].pc = IF clean THEN Committed(r) ELSE "commit"]
        /\ UNCHANGED <<index, documents, docs, repo, last, mu, calls, md, gor, staged>>

\* commitChanges: w.Commit(message) commits the index as it is now.  When the
\* index equals the last commit the version of go-git decides: it makes an
\* empty commit or returns ErrEmptyCommit; after an error CreateDocument
\* removes the directory it made, and the handler answers 500
Commit(p) ==
    LET r == reqs[p]
        commits == Append(repo, [tree |-> staged, message |-> Message(r)])
        made == [r EXCEPT !.pc = Committed(r), !.commit = Len(commits)]
    IN  /\ r.pc = "commit"
        /\ \E emptyCommits \in BOOLEAN :
               IF staged # HeadTree(repo) \/ emptyCommits
               THEN /\ repo' = commits
                    /\ docs' = docs
                    /\ reqs' = [reqs EXCEPT ![p] = made]
               ELSE /\ repo' = repo
                    /\ docs' = IF r.op = "CreateDocument"
                               THEN Restrict(docs, DOMAIN docs \ Subtree(docs, r.at))
                               ELSE docs
                    /\ reqs' = [reqs EXCEPT ![p] = Answered(r, 500)]
        /\ UNCHANGED <<index, documents, last, mu, calls, md, gor, staged>>

\* the Update handler: h.search.DeleteDocument(docPath), answered 500 when the
\* engine does not hold the path
SearchDelete(p) ==
    LET r == reqs[p]
        fails == SE_DeleteFails(Engine, r.path)
        se == SE_DeleteDocument(Engine, r.path)
    IN  /\ r.pc = "delete"
        /\ index' = IF fails THEN index ELSE se.index
        /\ documents' = IF fails THEN documents ELSE se.documents
        /\ reqs' = [reqs EXCEPT ![p] = IF fails THEN Answered(r, 500) ELSE [r EXCEPT !.pc = "index"]]
        /\ UNCHANGED <<docs, repo, last, mu, calls, md, gor, staged>>

\* h.search.IndexDocument of the document that the store returned; a create
\* that was repeated at the root is answered 202
SearchIndex(p) ==
    LET r == reqs[p]
        se == SE_IndexDocument(Engine, [Path |-> r.at, Title |-> r.title, Content |-> r.content])
    IN  /\ r.pc = "index"
        /\ index' = se.index
        /\ documents' = se.documents
        /\ reqs' = [reqs EXCEPT ![p] =
                        Answered(r, IF r.code # 0 THEN r.code
                                    ELSE IF r.pathChanged THEN 202 ELSE 200)]
        /\ UNCHANGED <<docs, repo, last, mu, calls, md, gor, staged>>

\* the titles and the content of the requests
RaceTitles == { <<"D">>, <<"P">> }

\* the server with the document P at the root, created and indexed by a
\* request that has been answered
InitRace ==
    LET served(r) ==
            /\ docs = r.docs
            /\ repo = r.repo
            /\ staged = HeadTree(r.repo)
            /\ index = r.index
            /\ documents = r.documents
    IN  /\ served(H_CreateDocument([docs |-> <<>>, repo |-> <<>>],
                                   [index |-> <<>>, documents |-> <<>>], <<>>, <<"P">>, <<>>))
        /\ last = NoCall
        /\ mu = [writer |-> 0, readers |-> {}]
        /\ calls = [p \in Procs |-> Idle]
        /\ md = loadMetadata(TRUE)
        /\ gor = NewMetadata
        /\ reqs = [p \in Requests |-> NoRequest]

NextRace ==
    \/ \E p \in Requests, parentPath \in DOMAIN docs \cup {<<>>}, title \in RaceTitles :
            Receive(p, "CreateDocument", parentPath, title, <<>>)
    \/ \E p \in Requests, docPath \in DOMAIN docs :
            /\ HasFile(docs, docPath)
            /\ Receive(p, "UpdateDocument", docPath, docs[docPath].title, <<"x">>)
    \/ \E p \in Requests : GenerateID(p)
    \/ \E p \in Requests : Mkdir(p)
    \/ \E p \in Requests : Stat(p)
    \/ \E p \in Requests : WriteFile(p)
    \/ \E p \in Requests : Add(p)
    \/ \E p \in Requests : WorktreeStatus(p)
    \/ \E p \in Requests : Commit(p)
    \/ \E p \in Requests : SearchDelete(p)
    \/ \E p \in Requests : SearchIndex(p)

SpecRace == InitRace /\ [][NextRace]_vars


\* C31: when two CreateDocument requests with the same title and the same
\* existing parent have run at the same time and both are answered, each has
\* made a node under that parent, one with the slug and one with slug(1) as
\* ID; neither has met the error of the missing parent and neither document
\* was created at the root by the second attempt of the handler.
C31_BothCreatesLandUnderTheParent ==
    \A a, b \in Requests :
        LET ra == reqs[a]
            rb == reqs[b]
        IN  (/\ a # b
             /\ ra.pc = "done" /\ rb.pc = "done"
             /\ ra.op = "CreateDocument" /\ rb.op = "CreateDocument"
             /\ ra.path = rb.path /\ ra.title = rb.title
             /\ ra.path # <<>>)
            => /\ ra.code = 200 /\ rb.code = 200
               /\ ~ra.pathChanged /\ ~rb.pathChanged
               /\ {ra.at, rb.at} = { ra.path \o <<Slug(ra.title)>>,
                                     ra.path \o <<Suffixed(Slug(ra.title), 1)>> }
               /\ HasFile(docs, ra.at) /\ HasFile(docs, rb.at)


\* the request has been answered without error
Succeeded(r) == r.pc = "done" /\ r.code \in {200, 202}

\* the commit holds the node of the request as the request wrote it
Records(commit, r) ==
    r.at \in DOMAIN commit.tree
    /\ commit.tree[r.at] = [title |-> r.title, content |-> r.content]

\* no other request writes another title or content to the node of request a
Undisturbed(a) ==
    \A c \in Requests \ {a} :
        reqs[c].at = reqs[a].at =>
            reqs[c].title = reqs[a].title /\ reqs[c].content = reqs[a].content

\* C32: the stage-all and commit steps of committing requests that run at the
\* same time interleave: a request that is answered without error and has
\* made no commit, because it found the tree clean, has its changes in the
\* commit that another request made, under the message of that request; one
\* commit can so hold the changes of both requests.
C32_OneCommitCanCarryBoth ==
    \A a \in Requests :
        /\ (Succeeded(reqs[a]) /\ reqs[a].commit = 0 /\ Undisturbed(a)) =>
                \E c \in Requests \ {a} :
                    /\ reqs[c].commit > 0
                    /\ Records(repo[reqs[c].commit], reqs[a])
                    /\ repo[reqs[c].commit].message = Message(reqs[c])
        /\ reqs[a].commit > 0 => repo[reqs[a].commit].message = Message(reqs[a])

\* two requests are answered, an update and a create: the create has made
\* the only new commit, which holds the new node and the updated content of
\* the other node; the update found the tree clean and made no commit
C32_Witness ==
    \E a, b \in Requests :
        /\ Succeeded(reqs[a]) /\ Succeeded(reqs[b])
        /\ reqs[a].op = "UpdateDocument" /\ reqs[b].op = "CreateDocument"
        /\ reqs[a].commit = 0 /\ reqs[b].commit = Len(repo)
        /\ Len(repo) = 2
        /\ Records(repo[2], reqs[a]) /\ Records(repo[2], reqs[b])
        /\ ~Records(repo[1], reqs[a]) /\ ~Records(repo[1], reqs[b])
        /\ repo[2].message = "Create document: " \o PathString(reqs[b].at)


\* C34: while the update handler runs for a document that was indexed before
\* the requests began, with a title that the old and the new version share, a
\* Search for the title returns the document at every moment: no Search sees
\* the index without the document.
C34_SearchAlwaysFindsTheUpdatedDocument ==
    \A a \in Requests :
        (/\ reqs[a].op = "UpdateDocument"
         /\ reqs[a].pc # "done"
         /\ reqs[a].path \in DOMAIN repo[1].tree)
        => Returned(Engine, reqs[a].title, reqs[a].path)


(***************************************************************************)
(* The favorites and the last-viewed list under calls that come one after  *)
(* the other (metadata.go; every method holds m.mu from its first to its   *)
(* last access of the lists).                                              *)
(***************************************************************************)

\* the documents that the handlers hand to the Metadata (documentToShort
\* never gives nil)
ListDocs == {"p", "d", "n"}

CallAddToFavorites(doc) ==
    /\ md' = AddToFavorites(md, doc)
    /\ UNCHANGED <<index, documents, docs, repo, last, mu, calls, gor, staged, reqs>>

CallRemoveFromFavorites(path) ==
    /\ md' = RemoveFromFavorites(md, path)
    /\ UNCHANGED <<index, documents, docs, repo, last, mu, calls, gor, staged, reqs>>

CallUpdateViewedMeta(viewed) ==
    /\ md' = UpdateViewedMeta(md, viewed)
    /\ UNCHANGED <<index, documents, docs, repo, last, mu, calls, gor, staged, reqs>>

NextLists ==
    \/ \E doc \in ListDocs : CallAddToFavorites(doc)
    \/ \E path \in ListDocs : CallRemoveFromFavorites(path)
    \/ \E viewed \in ListDocs : CallUpdateViewedMeta(viewed)

SpecLists == Init /\ [][NextLists]_vars

\* C37: the favorites hold at most one entry per path; adding a path that
\* is present changes nothing; removing a path takes exactly its entry out
\* and keeps the order of the others; IsFavorite(path) is true after
\* AddToFavorites(path), false after RemoveFromFavorites(path), and a call
\* for one path leaves the answer for every other path as it was (so it is
\* true exactly when path was added after its last removal).
C37_FavoritesHoldEachPathOnce ==
    \A path \in ListDocs :
        LET others(list) == SelectSeq(list, LAMBDA f : f # path)
            same(a, b) == \A other \in ListDocs \ {path} :
                              IsFavorite(a, other) = IsFavorite(b, other)
            adds(added) ==
                /\ IsFavorite(md, path) => added = md
                /\ IsFavorite(added, path)
                /\ others(added.Favorites) = others(md.Favorites)
                /\ same(added, md)
            removes(removed) ==
                /\ removed.Favorites = others(md.Favorites)
                /\ ~IsFavorite(removed, path)
                /\ same(removed, md)
        IN  /\ Cardinality(Positions(md.Favorites, path)) <= 1
            /\ adds(AddToFavorites(md, path))
            /\ removes(RemoveFromFavorites(md, path))

\* the favorites d, p: adding d again changes nothing, removing d leaves p
C37_Witness ==
    /\ md.Favorites = <<"d", "p">>
    /\ AddToFavorites(md, "d") = md
    /\ RemoveFromFavorites(md, "d").Favorites = <<"p">>
    /\ RemoveFromFavorites(md, "n").Favorites = <<"d", "p">>

\* C38: the last-viewed list of a Metadata that started with an empty list
\* never holds more than 5 entries, and each entry is a document that was
\* handed to UpdateViewedMeta (never nil).
C38_ViewedListIsShortAndWhole ==
    /\ Len(md.LastViewedDocs) <= 5
    /\ \A i \in 1..Len(md.LastViewedDocs) : md.LastViewedDocs[i] \in ListDocs

\* a full list, on which one more call for any document keeps five entries
C38_Witness ==
    /\ Len(md.LastViewedDocs) = 5
    /\ Cardinality({md.LastViewedDocs[i] : i \in 1..5}) = 3
    /\ \A d \in ListDocs : Len(UpdateViewedMeta(md, d).LastViewedDocs) = 5

\* C39: after UpdateViewedMeta(d) the list is d followed by the entries
\* that were there before in the order they had, without d; only when the
\* list was full and d was not in it, its last (oldest) entry is dropped.
C39_ViewedDocumentComesFirst ==
    \A d \in ListDocs :
        LET expected(before) ==
                IF Len(before) = 5 /\ Positions(before, d) = {}
                THEN <<d>> \o SubSeq(before, 1, 4)
                ELSE <<d>> \o SelectSeq(before, LAMBDA e : e # d)
        IN  UpdateViewedMeta(md, d).LastViewedDocs = expected(md.LastViewedDocs)

====
